---- MODULE Spec2Model ----
(***************************************************************************)
(* CardStock: the command/undo engine of the page and stack editors, the   *)
(* viewer's stack of stacks (GosubStack / PushStack / PopStack /           *)
(* RunViewer), opening a document, and the marshalling of calls from       *)
(* runner threads onto the main thread.                                    *)
(***************************************************************************)
EXTENDS Integers, Sequences, FiniteSets, TLC

VARIABLES
    page,          \* the PageWindow: shapes, uiViews, nextId, selectedView, command_processor
    pageSnapshot,  \* GetData() of the page taken when its command history was empty
    pageDone,      \* per position of the page's history, GetData() as Submit left it
    stackStack,    \* ViewerFrame.stackStack: [runner, stackModel, filename, cardIndex] per frame
    rootRunner,    \* ViewerFrame.rootRunner
    stackManager,  \* ViewerFrame.stackManager: stackModel, runner, filename, cardIndex, command_processor
    stackModels,   \* the StackModel objects: cards, dirty, didSetDown
    runners,       \* the Runner objects: stackSetupValue, values returned to it, timers, cleanup
    mainQueue,     \* the functions marshalled to the main thread and not yet run
    app,           \* ViewerApp: which frame is installed, whether it was set down and destroyed
    workers,       \* the runner threads' calls of to_main_sync: where each stands, what it got
    returnQueue,   \* KillableThread.returnQueue
    cardsSnapshot, \* the cards of the current stack when its command history was last empty
    suspended,     \* per suspended frame, the commands its history held when it made its call
    cardsDone,     \* per position of the stack manager's history, the cards as Submit left them
    designer,      \* the designer's StackManager and the stack model it edits
    probe,         \* a method of the entity model called on a document: arguments and result
    program,       \* which program of the repository runs: the page editor or the stack viewer
    lastOp         \* the operation that ran last, with its arguments and its result

vars == <<page, pageSnapshot, pageDone, stackStack, rootRunner, stackManager, stackModels,
          runners, mainQueue, app, workers, returnQueue, cardsSnapshot, suspended,
          cardsDone, designer, probe, program, lastOp>>

viewerVars == <<stackStack, rootRunner, stackManager, stackModels, runners, mainQueue,
                app, workers, returnQueue, cardsSnapshot, suspended, cardsDone>>

pageVars == <<page, pageSnapshot, pageDone>>

syncVars == <<workers, returnQueue>>

historyVars == <<cardsSnapshot, suspended, cardsDone>>

\* ---------------------------------------------------------------- bounds

\* AddUiViewOfType is not called again once nextId has advanced this far
MaxPageIds == 4
\* OnMouseUp draws no further line once the page holds this many shapes
MaxShapes == 2
\* no stack is called while the stack of stacks is this deep
MaxDepth == 3
\* no card is added to a stack that has this many
MaxCards == 3
\* no command is submitted while the history holds this many
MaxCommands == 2
\* a runner thread marshals no further function while this many wait
MaxQueue == 2
\* no return is requested while this many values are returned and not yet taken
MaxReturned == 2
\* the user opens no further file after this many frames
MaxFrames == 2
\* the runner threads alive at the same time
MaxWorkers == 2
\* a runner thread makes no further synchronous call after this many
MaxCalls == 2
\* the most parts a path given to GetModelFromPath has
MaxParts == 3
\* the designer's user makes no further change after this many
MaxEdits == 4
\* the most child models a card of a document under test holds
MaxChildren == 2

\* ---------------------------------------------------------------- helpers

Last(s) == s[Len(s)]

Front(s) == SubSeq(s, 1, Len(s) - 1)

\* str(i)
Numeral(i) == ToString(i)

RECURSIVE Reverse(_)
Reverse(s) == IF s = <<>> THEN <<>> ELSE Append(Reverse(Tail(s)), Head(s))

\* the commands a CommandProcessor holds, in the order they were submitted:
\* those done, then those undone (the last undone is the first to redo)
Timeline(commands, redoCommands) == commands \o Reverse(redoCommands)

\* list.remove / filtering a list by a predicate on the element's id
RECURSIVE WithoutId(_, _)
WithoutId(s, id) ==
    IF s = <<>> THEN <<>>
    ELSE IF Head(s).id = id THEN WithoutId(Tail(s), id)
         ELSE <<Head(s)>> \o WithoutId(Tail(s), id)

\* ---------------------------------------------------------------- page.py

\* PageWindow.__init__: self.nextId = 1000
FirstId == 1000
\* the wx id the page's own window is created with: PageWindow(self, -1)
PageId == -1

Lines == {"line_a", "line_b"}

ViewTypes == {"button", "textfield"}

\* UiPage(self), the first entry of uiViews
UiPage == [id |-> PageId, type |-> "page", name |-> <<"page">>]

\* PageWindow.__init__
NewPageWindow ==
    [shapes |-> <<>>, uiViews |-> <<UiPage>>, nextId |-> FirstId,
     selectedView |-> <<>>, commands |-> <<>>, redoCommands |-> <<>>]

\* PageWindow.GetData: the shapes and the views' data
PageGetData(p) == [shapes |-> p.shapes, uiviews |-> p.uiViews]

\* PageWindow.GetUIViewById: the first view with that wx id, <<>> for None
GetUIViewById(p, viewId) ==
    LET hits == {i \in 1..Len(p.uiViews) : p.uiViews[i].id = viewId}
    IN  IF hits = {} THEN <<>>
        ELSE <<p.uiViews[CHOOSE i \in hits : \A j \in hits : i <= j].id>>

\* PageWindow.SelectUIView
SelectUIView(p, view) == [p EXCEPT !.selectedView = view]

\* PageWindow.AddUiViewFromData: the page's entry reuses uiPage, every entry
\* takes the next id
AddUiViewFromData(p, data) ==
    LET uiView == IF data.type = "page" THEN UiPage
                  ELSE [id |-> p.nextId, type |-> data.type, name |-> data.name]
    IN  [p EXCEPT !.nextId = p.nextId + 1,
                  !.uiViews = Append(p.uiViews, uiView)]

RECURSIVE SetUIViewsDataFrom(_, _)
SetUIViewsDataFrom(p, data) ==
    IF data = <<>> THEN p
    ELSE SetUIViewsDataFrom(AddUiViewFromData(p, Head(data)), Tail(data))

\* PageWindow.SetUIViewsData
SetUIViewsData(p, data) == SetUIViewsDataFrom([p EXCEPT !.uiViews = <<>>], data)

\* PageWindow.ClearAll: no shapes, no selection, every view but the page removed
ClearAll(p) ==
    [p EXCEPT !.shapes = <<>>, !.selectedView = <<>>,
              !.uiViews = SelectSeq(p.uiViews, LAMBDA ui : ui.type = "page")]

\* PageWindow.LoadFromData
LoadFromData(p, data) ==
    SetUIViewsData([ClearAll(p) EXCEPT !.shapes = data.shapes], data.uiviews)

\* PageWindow.RemoveUIViewById
RemoveUIViewById(p, viewId) ==
    [p EXCEPT !.uiViews = WithoutId(p.uiViews, viewId),
              !.selectedView = IF p.selectedView = <<viewId>> THEN <<>> ELSE p.selectedView]

\* AddLineCommand.Do
AddLineCommand_Do(p, c) == [p EXCEPT !.shapes = Append(p.shapes, c.line)]

AddLineCommand_Undo_keeps(p, c) == p

\* AddLineCommand.Undo
AddLineCommand_Undo(p, c) ==
    IF Len(p.shapes) > 0 THEN [p EXCEPT !.shapes = Front(p.shapes)] ELSE p

\* `name not in names` on what is left of the iterator map() returned: the
\* search consumes the iterator up to and including the first hit
RECURSIVE GetNextAvailableName_Loop(_, _, _)
GetNextAvailableName_Loop(names, base, i) ==
    LET name == Append(base, Numeral(i))
        hits == {k \in 1..Len(names) : names[k] = name}
    IN  IF hits = {} THEN name
        ELSE GetNextAvailableName_Loop(
                 SubSeq(names, (CHOOSE k \in hits : \A j \in hits : k <= j) + 1, Len(names)),
                 base, i + 1)

\* PageWindow.GetNextAvailableName
GetNextAvailableName(p, base) ==
    GetNextAvailableName_Loop([k \in 1..Len(p.uiViews) |-> p.uiViews[k].name], base, 1)

\* UiButton(page, viewId) / UiTextField(page, viewId): a view named after its type
NewUiView(p, viewType, viewId) ==
    [id |-> viewId, type |-> viewType, name |-> GetNextAvailableName(p, <<viewType>>)]

AddUIViewCommand_Do_freshId(p, c) ==
    [p EXCEPT !.uiViews = Append(p.uiViews, NewUiView(p, c.viewType, p.nextId))]

\* AddUIViewCommand.Do: a new view with the id the command was built with
AddUIViewCommand_Do(p, c) ==
    [p EXCEPT !.uiViews = Append(p.uiViews, NewUiView(p, c.viewType, c.viewId))]

\* AddUIViewCommand.Undo
AddUIViewCommand_Undo(p, c) == RemoveUIViewById(p, c.viewId)

\* Command.Do / Command.Undo of the page's two commands (both return True)
PageDo(p, c) ==
    IF c.cmd = "AddLine" THEN AddLineCommand_Do(p, c) ELSE AddUIViewCommand_Do(p, c)

PageUndoCommand(p, c) ==
    IF c.cmd = "AddLine" THEN AddLineCommand_Undo(p, c) ELSE AddUIViewCommand_Undo(p, c)

PageSubmit_keepsRedo(p, c) == [PageDo(p, c) EXCEPT !.commands = Append(p.commands, c)]

\* CommandProcessor.Submit(command): Do it, drop the redoable commands, store it
PageSubmit(p, c) ==
    [PageDo(p, c) EXCEPT !.commands = Append(p.commands, c), !.redoCommands = <<>>]

\* PageWindow.Undo: CommandProcessor.Undo (a no-op with nothing to undo)
PageWindow_Undo(p) ==
    IF p.commands = <<>> THEN p
    ELSE [PageUndoCommand(p, Last(p.commands)) EXCEPT
            !.commands = Front(p.commands),
            !.redoCommands = Append(p.redoCommands, Last(p.commands))]

\* PageWindow.Redo: CommandProcessor.Redo (a no-op with nothing to redo)
PageWindow_Redo(p) ==
    IF p.redoCommands = <<>> THEN p
    ELSE [PageDo(p, Last(p.redoCommands)) EXCEPT
            !.commands = Append(p.commands, Last(p.redoCommands)),
            !.redoCommands = Front(p.redoCommands)]

\* PageWindow.OnMouseUp while drawing: submits AddLineCommand for the line drawn
PageWindow_OnMouseUp(p, line) == PageSubmit(p, [cmd |-> "AddLine", line |-> line])

\* PageWindow.AddUiViewOfType
AddUiViewOfType(p, viewType) ==
    LET p1 == IF viewType \in ViewTypes
              THEN PageSubmit(p, [cmd |-> "AddUIView", viewType |-> viewType,
                                  viewId |-> p.nextId])
              ELSE p
        p2 == SelectUIView(p1, GetUIViewById(p1, p.nextId))
    IN  [p2 EXCEPT !.nextId = p.nextId + 1]

\* documents a page is loaded from (viewer.py: LoadFromData(stack.GetPageData(0)))
PageDocuments ==
    { [shapes |-> <<>>, uiviews |-> <<UiPage>>],
      \* saved after button1 was removed and a button added in its place
      [shapes |-> <<"line_a">>,
       uiviews |-> <<UiPage, [id |-> FirstId, type |-> "button", name |-> <<"button", "2">>],
                     [id |-> FirstId, type |-> "button", name |-> <<"button", "1">>]>>] }

PageInit ==
    /\ \E data \in PageDocuments : page = LoadFromData(NewPageWindow, data)
    /\ pageSnapshot = PageGetData(page)
    /\ pageDone = <<>>

\* the snapshot is that of the last moment the history held no command
PageStep(p, op) ==
    /\ program = "page"
    /\ page' = p
    /\ pageSnapshot' = pageSnapshot
    /\ pageDone' = IF op.op \in {"OnMouseUp", "AddUiViewOfType"} /\ p.commands # page.commands
                   THEN Append(SubSeq(pageDone, 1, Len(p.commands) - 1), PageGetData(p))
                   ELSE pageDone
    /\ lastOp' = op
    /\ UNCHANGED <<viewerVars, designer, probe, program>>

OnMouseUp ==
    \E line \in Lines :
        /\ Len(page.shapes) < MaxShapes
        /\ PageStep(PageWindow_OnMouseUp(page, line),
                    [op |-> "OnMouseUp", discarded |-> Len(page.redoCommands)])

AddUiView ==
    \E viewType \in ViewTypes \cup {"label"} :
        /\ page.nextId < FirstId + MaxPageIds
        /\ PageStep(AddUiViewOfType(page, viewType),
                    [op |-> "AddUiViewOfType", viewType |-> viewType,
                     discarded |-> Len(page.redoCommands)])

\* the designer removes a view of the page
PageRemoveView ==
    \E k \in 2..Len(page.uiViews) :
        /\ program = "page"
        /\ PageStep(RemoveUIViewById(page, page.uiViews[k].id),
                    [op |-> "RemoveUIViewById", viewId |-> page.uiViews[k].id])

PageUndo ==
    PageStep(PageWindow_Undo(page), [op |-> "PageUndo", acted |-> page.commands # <<>>])

PageRedo ==
    PageStep(PageWindow_Redo(page), [op |-> "PageRedo", acted |-> page.redoCommands # <<>>])

\* ---------------------------------------------------------------- stackManager.py

\* self.cardIndex = None
NoIndex == -1
\* self.runner = None
NoRunner == 0
\* self.filename = None
NoFile == "None"
\* setupValue=None, the value of a runner that was given none
NoValue == 0

\* the stack model a new StackManager builds for itself
DefaultModel == 0

RunnerIds == 1..MaxDepth

ModelIds == 0..MaxDepth

CardIds == 1..(MaxCards + MaxCommands)

\* StackModel(None), before SetData, and a model no frame refers to any more
DeadModel == [cards |-> <<>>, dirty |-> FALSE, didSetDown |-> FALSE]

\* Runner(stackManager, viewer)
NewRunner ==
    [stackSetupValue |-> NoValue, returned |-> <<>>, timersStopped |-> FALSE,
     cleanedUp |-> FALSE]

\* StackManager.__init__: its own stack model with one card, card 0 loaded,
\* no runner, no filename, an empty command history
NewStackManager ==
    [stackModel |-> DefaultModel, runner |-> NoRunner, filename |-> NoFile,
     cardIndex |-> 0, commands |-> <<>>, redoCommands |-> <<>>]

\* ViewerFrame.__init__: a stack manager, an empty stackStack, no root runner
\* (log: what the runners were asked to do during the operation under way)
NewViewerFrame ==
    [stackStack |-> <<>>, rootRunner |-> NoRunner, sm |-> NewStackManager, log |-> <<>>,
     models |-> [m \in ModelIds |->
                    IF m = DefaultModel THEN [DeadModel EXCEPT !.cards = <<1>>]
                    ELSE DeadModel],
     runners |-> [r \in RunnerIds |-> NewRunner]]

Cards(w) == w.models[w.sm.stackModel].cards

\* list.insert(index, x): an index past the end appends, a negative index
\* counts from the end, and one before the start inserts first
InsertAt(s, index, x) ==
    LET i == IF index < 0
             THEN (IF Len(s) + index < 0 THEN 0 ELSE Len(s) + index)
             ELSE (IF index > Len(s) THEN Len(s) ELSE index)
    IN  SubSeq(s, 1, i) \o <<x>> \o SubSeq(s, i + 1, Len(s))

\* list.remove(x)
RemoveFirst(s, x) ==
    LET hits == {i \in 1..Len(s) : s[i] = x}
        i == CHOOSE k \in hits : \A j \in hits : k <= j
    IN  SubSeq(s, 1, i - 1) \o SubSeq(s, i + 1, Len(s))

\* StackModel.InsertCardModel
InsertCardModel(w, index, card) ==
    [w EXCEPT !.models[w.sm.stackModel].cards = InsertAt(@, index, card)]

\* StackModel.RemoveCardModel
RemoveCardModel(w, card) ==
    [w EXCEPT !.models[w.sm.stackModel].cards = RemoveFirst(@, card)]

\* self.runner.RunHandler(cardModel, handler, None) of the stack manager's
\* runner, when it has one
Dispatch(w, handler, index) ==
    IF w.sm.runner # NoRunner
    THEN [w EXCEPT !.log = Append(@, [ev |-> handler, runner |-> w.sm.runner,
                                      stackModel |-> w.sm.stackModel, card |-> index])]
    ELSE w

\* StackManager.LoadCardAtIndex, not editing; every card is taken to have an
\* OnShowCard handler
LoadCardAtIndex(w, index, reload) ==
    IF index # w.sm.cardIndex \/ reload
    THEN LET w0 == IF w.sm.cardIndex # NoIndex /\ ~reload
                   THEN Dispatch(w, "OnHideCard", w.sm.cardIndex) ELSE w
             w1 == [w0 EXCEPT !.sm.cardIndex = index]
         IN  IF index # NoIndex /\ ~reload THEN Dispatch(w1, "OnShowCard", index) ELSE w1
    ELSE w

\* CommandProcessor.ClearCommands
ClearCommands(w) == [w EXCEPT !.sm.commands = <<>>, !.sm.redoCommands = <<>>]

SetStackModel_keepsCommands(w, model) ==
    LET w1 == [w EXCEPT !.sm.stackModel = model, !.sm.cardIndex = NoIndex]
        w2 == LoadCardAtIndex(w1, 0, FALSE)
    IN  [w2 EXCEPT !.models[model].dirty = FALSE]

\* StackManager.SetStackModel
SetStackModel(w, model) ==
    LET w1 == [w EXCEPT !.sm.stackModel = model, !.sm.cardIndex = NoIndex]
        w2 == LoadCardAtIndex(w1, 0, FALSE)
        w3 == ClearCommands(w2)
    IN  [w3 EXCEPT !.models[model].dirty = FALSE]

\* the card of a new CardModel: one that is neither in the stack nor held by a
\* command of the history
NewCard(w) ==
    LET held == {w.sm.commands[i].card : i \in 1..Len(w.sm.commands)}
        used == {Cards(w)[i] : i \in 1..Len(Cards(w))} \cup held
    IN  CHOOSE c \in CardIds \ used : \A d \in CardIds \ used : c <= d

\* commands.py AddNewUiViewCommand("card").Do / RemoveUiViewsCommand(card).Undo
CardCommand_Insert(w, c) ==
    LET w1 == InsertCardModel(w, c.cardIndex, c.card)
        w2 == LoadCardAtIndex(w1, c.cardIndex, TRUE)
    IN  [w2 EXCEPT !.models[w.sm.stackModel].dirty = TRUE]

\* commands.py AddNewUiViewCommand("card").Undo / RemoveUiViewsCommand(card).Do:
\* the card is removed and c.goTo becomes the card shown
CardCommand_Remove(w, c, goTo) ==
    LET w1 == RemoveCardModel(w, c.card)
        w2 == LoadCardAtIndex(w1, goTo, TRUE)
    IN  [w2 EXCEPT !.models[w.sm.stackModel].dirty = TRUE]

\* Command.Do
CardCommand_Do(w, c) ==
    IF c.cmd = "AddCard" THEN CardCommand_Insert(w, c)
    ELSE CardCommand_Remove(w, c, IF c.cardIndex >= Len(Cards(w)) - 1
                                  THEN Len(Cards(w)) - 2 ELSE c.cardIndex)

\* Command.Undo
CardCommand_Undo(w, c) ==
    IF c.cmd = "AddCard" THEN CardCommand_Remove(w, c, c.cardIndex - 1)
    ELSE CardCommand_Insert(w, c)

\* CommandProcessor.Submit(command)
Submit(w, c) ==
    LET w1 == CardCommand_Do(w, c)
    IN  [w1 EXCEPT !.sm.commands = Append(w.sm.commands, c), !.sm.redoCommands = <<>>]

\* CommandProcessor.Submit(command, storeIt=False): Do it, drop the redoable
\* commands, do not store it
Submit_noStore(w, c) ==
    [CardCommand_Do(w, c) EXCEPT !.sm.redoCommands = <<>>]

\* StackManager.Paste with one card on the clipboard: the card built from the
\* clipboard's data is added after the current card
StackManager_Paste(w, canUndo) ==
    LET c == [cmd |-> "AddCard", cardIndex |-> w.sm.cardIndex + 1, card |-> NewCard(w)]
    IN  IF canUndo THEN Submit(w, c) ELSE Submit_noStore(w, c)

\* StackManager.AddCard
StackManager_AddCard(w) ==
    Submit(w, [cmd |-> "AddCard", cardIndex |-> w.sm.cardIndex + 1, card |-> NewCard(w)])

\* StackManager.RemoveCard
StackManager_RemoveCard(w) ==
    IF Len(Cards(w)) > 1
    THEN Submit(w, [cmd |-> "RemoveCard", cardIndex |-> w.sm.cardIndex,
                    card |-> Cards(w)[w.sm.cardIndex + 1]])
    ELSE w

\* StackManager.Undo
StackManager_Undo(w) ==
    LET w1 == IF w.sm.commands = <<>> THEN w
              ELSE [CardCommand_Undo(w, Last(w.sm.commands)) EXCEPT
                      !.sm.commands = Front(w.sm.commands),
                      !.sm.redoCommands = Append(w.sm.redoCommands, Last(w.sm.commands))]
    IN  IF w1.sm.commands = <<>>
        THEN [w1 EXCEPT !.models[w.sm.stackModel].dirty = FALSE]
        ELSE w1

\* StackManager.Redo
StackManager_Redo(w) ==
    IF w.sm.redoCommands = <<>> THEN w
    ELSE [CardCommand_Do(w, Last(w.sm.redoCommands)) EXCEPT
            !.sm.commands = Append(w.sm.commands, Last(w.sm.redoCommands)),
            !.sm.redoCommands = Front(w.sm.redoCommands)]

\* ---------------------------------------------------------------- cardstock/viewer.py

\* what open() and json.load() make of each file a script or the user names
FileKind ==
    [f \in {"missing.cds", "locked.cds", "garbled.cds", "empty.cds", "plain.cds",
            "one.cds", "/three.cds"} |->
        CASE f = "missing.cds" -> "missing"       \* open: FileNotFoundError
          [] f = "locked.cds"  -> "unreadable"    \* open: PermissionError
          [] f = "garbled.cds" -> "badjson"       \* json.load: JSONDecodeError
          [] f = "empty.cds"   -> "empty"         \* JSON "{}": data is falsy
          [] f = "plain.cds"   -> "unloadable"    \* JSON without CardStock_stack_format
          [] OTHER             -> "stack"]

Files == DOMAIN FileKind

\* os.path.isabs
IsAbs(f) == f = "/three.cds"

\* the cards of the document a stack file holds
FileCards(f) == IF f = "/three.cds" THEN <<1, 2, 3>> ELSE <<1>>

\* StackModel.SetData raises on data it cannot load (KeyError, TypeError, a
\* failed migration)
SetDataRaises(f) == FileKind[f] = "unloadable"

\* StackModel(None) then SetData(data): the model built from a file's data
StackModel_SetData(f) == [DeadModel EXCEPT !.cards = FileCards(f)]

\* runner.stackReturnQueue.put: Runner.DoReturnFromStack hands the value to the runner
DoReturnFromStack(w, runner, value) ==
    [w EXCEPT !.runners[runner].returned = Append(@, value)]

\* Runner.StopTimers
StopTimers(w, runner) == [w EXCEPT !.runners[runner].timersStopped = TRUE]

\* Runner.CleanupFromRun, with the onRunFinished hook PopStack installs:
\* sModel.SetDown() and sModel.DismantleChildTree()
CleanupFromRun(w, runner, sModel) ==
    [w EXCEPT !.runners[runner].cleanedUp = TRUE,
              !.models[sModel].didSetDown = TRUE]

RunViewer_dropsValue(w, runner, stackModel, filename, cardIndex, ioValue, isGoingBack) ==
    LET w1 == SetStackModel(w, stackModel)
        w2 == [w1 EXCEPT !.sm.filename = filename, !.sm.runner = runner]
        w3 == LoadCardAtIndex(w2, NoIndex, FALSE)
        index == IF 0 <= cardIndex /\ cardIndex < Len(Cards(w3)) THEN cardIndex ELSE 0
        w4 == LoadCardAtIndex(w3, index, FALSE)
    IN  IF isGoingBack THEN DoReturnFromStack(w4, runner, ioValue) ELSE w4

\* ViewerFrame.RunViewer
RunViewer(w, runner, stackModel, filename, cardIndex, ioValue, isGoingBack) ==
    LET w1 == SetStackModel(w, stackModel)
        w2 == [w1 EXCEPT !.sm.filename = filename]
        w3 == IF ~isGoingBack
              THEN [w2 EXCEPT !.runners[runner].stackSetupValue = ioValue,
                              !.log = Append(@, [ev |-> "stackSetupValue", runner |-> runner,
                                                 stackModel |-> stackModel, card |-> NoIndex])]
              ELSE w2
        w3a == [w3 EXCEPT !.sm.runner = runner]
        w4 == IF ~isGoingBack
              THEN [w3a EXCEPT !.log = Append(@, [ev |-> "RunSetup", runner |-> runner,
                                                  stackModel |-> stackModel, card |-> NoIndex])]
              ELSE w3a
        w5 == LoadCardAtIndex(w4, NoIndex, FALSE)
        index == IF 0 <= cardIndex /\ cardIndex < Len(Cards(w5)) THEN cardIndex ELSE 0
        w6 == LoadCardAtIndex(w5, index, FALSE)
    IN  IF isGoingBack THEN DoReturnFromStack(w6, runner, ioValue) ELSE w6

\* the objects Runner(...) and StackModel(None) create: an id no frame uses
FreeRunner(w) ==
    LET used == {w.stackStack[i].runner : i \in 1..Len(w.stackStack)}
    IN  CHOOSE r \in RunnerIds \ used : \A q \in RunnerIds \ used : r <= q

FreeModel(w) ==
    LET used == {w.stackStack[i].stackModel : i \in 1..Len(w.stackStack)}
                    \cup {w.sm.stackModel, DefaultModel}
    IN  CHOOSE m \in ModelIds \ used : \A n \in ModelIds \ used : m <= n

PushStack_noRecord(w, stackModel, filename, cardIndex, setupValue) ==
    LET n == Len(w.stackStack)
        w1 == IF n > 0 THEN StopTimers(w, w.sm.runner) ELSE w
        runner == FreeRunner(w1)
        w2 == [w1 EXCEPT !.runners[runner] = NewRunner,
                         !.rootRunner = IF n = 0 THEN runner ELSE @]
        w3 == [w2 EXCEPT !.stackStack = Append(@,
                  [runner |-> runner, stackModel |-> stackModel,
                   filename |-> filename, cardIndex |-> cardIndex])]
    IN  RunViewer(w3, runner, stackModel, filename, cardIndex, setupValue, FALSE)

PushStack_stopsNewRunner(w, stackModel, filename, cardIndex, setupValue) ==
    LET n == Len(w.stackStack)
        w1 == IF n > 0 THEN [w EXCEPT !.stackStack[n].cardIndex = w.sm.cardIndex] ELSE w
        runner == FreeRunner(w1)
        w2 == [w1 EXCEPT !.runners[runner] = NewRunner,
                         !.rootRunner = IF n = 0 THEN runner ELSE @]
        w3 == [w2 EXCEPT !.stackStack = Append(@,
                  [runner |-> runner, stackModel |-> stackModel,
                   filename |-> filename, cardIndex |-> cardIndex])]
        w4 == RunViewer(w3, runner, stackModel, filename, cardIndex, setupValue, FALSE)
    IN  IF n > 0 THEN StopTimers(w4, w4.sm.runner) ELSE w4

\* ViewerFrame.PushStack
PushStack(w, stackModel, filename, cardIndex, setupValue) ==
    LET n == Len(w.stackStack)
        w1 == IF n > 0
              THEN StopTimers([w EXCEPT !.stackStack[n].cardIndex = w.sm.cardIndex],
                              w.sm.runner)
              ELSE w
        runner == FreeRunner(w1)
        w2 == [w1 EXCEPT !.runners[runner] = NewRunner,
                         !.rootRunner = IF n = 0 THEN runner ELSE @]
        w3 == [w2 EXCEPT !.stackStack = Append(@,
                  [runner |-> runner, stackModel |-> stackModel,
                   filename |-> filename, cardIndex |-> cardIndex])]
    IN  RunViewer(w3, runner, stackModel, filename, cardIndex, setupValue, FALSE)

PopStack_tearsDownResumed(w, returnValue, isShuttingDown) ==
    IF Len(w.stackStack) > 1
    THEN LET w1 == [w EXCEPT !.runners[w.sm.runner].cleanedUp = TRUE]
             w2 == [w1 EXCEPT !.stackStack = Front(@)]
             parts == Last(w2.stackStack)
             w3 == [w2 EXCEPT !.models[parts.stackModel].didSetDown = TRUE]
         IN  IF ~isShuttingDown
             THEN RunViewer(w3, parts.runner, parts.stackModel, parts.filename,
                            parts.cardIndex, returnValue, TRUE)
             ELSE SetStackModel([w3 EXCEPT !.sm.runner = parts.runner], parts.stackModel)
    ELSE w

\* ViewerFrame.PopStack
PopStack(w, returnValue, isShuttingDown) ==
    IF Len(w.stackStack) > 1
    THEN LET w1 == CleanupFromRun(w, w.sm.runner, w.sm.stackModel)
             w2 == [w1 EXCEPT !.stackStack = Front(@)]
             parts == Last(w2.stackStack)
         IN  IF ~isShuttingDown
             THEN RunViewer(w2, parts.runner, parts.stackModel, parts.filename,
                            parts.cardIndex, returnValue, TRUE)
             ELSE SetStackModel([w2 EXCEPT !.sm.runner = parts.runner], parts.stackModel)
    ELSE w

\* what a PopStack that took w0 to w did: the stack manager's runner and stack
\* model, the frames, the root runner, the stack model of the frame it popped
\* and the stack models it set down
PopReport(w0, w) ==
    [runner |-> w.sm.runner, stackModel |-> w.sm.stackModel, stackStack |-> w.stackStack,
     rootRunner |-> w.rootRunner, popped |-> Last(w0.stackStack).stackModel,
     setDown |-> {m \in ModelIds : w.models[m].didSetDown /\ ~w0.models[m].didSetDown}]

\* for l in range(len(self.stackStack)-1): self.PopStack(None, True)
RECURSIVE PopStacks(_, _)
PopStacks(w, n) == IF n = 0 THEN w ELSE PopStacks(PopStack(w, NoValue, TRUE), n - 1)

OnClose_Frame_leavesOne(w) ==
    IF w.runners[w.sm.runner].cleanedUp \/ Len(w.stackStack) < 2 THEN w
    ELSE PopStacks(w, Len(w.stackStack) - 2)

\* ViewerFrame.OnClose that is not vetoed, up to stackManager.SetDown():
\* nothing when the runner was stopped, else the nested frames are popped
OnClose_Frame(w) ==
    IF w.runners[w.sm.runner].cleanedUp THEN w
    ELSE PopStacks(w, Len(w.stackStack) - 1)

\* the pops of OnClose, one report each
OnClose_Reports(w) ==
    IF w.runners[w.sm.runner].cleanedUp THEN <<>>
    ELSE [i \in 1..(Len(w.stackStack) - 1) |->
             PopReport(PopStacks(w, i - 1), PopStacks(w, i))]

\* ViewerFrame.OnClose, the frame: set down and, by the default handling of
\* the close event that event.Skip() asks for, destroyed
OnClose_App(w, a) ==
    IF w.runners[w.sm.runner].cleanedUp THEN a
    ELSE [a EXCEPT !.setDown = TRUE, !.destroyed = TRUE]

Gone_never(func, a) == FALSE

\* a function marshalled by a frame that is no longer the installed one, or
\* that was destroyed (Destroy: self.stackManager = None), finds no stack
\* manager: PushStack raises at its first statement
Gone(func, a) == func.frame # a.frame \/ a.destroyed

GosubStack_Result_uncaught(w, filename) ==
    IF filename # NoFile
    THEN IF ~IsAbs(filename) /\ w.sm.filename = NoFile THEN "False"
         ELSE CASE FileKind[filename] = "empty" -> "None"
                [] FileKind[filename] \in {"stack", "unloadable"} -> "True"
                [] OTHER -> "raise"
    ELSE IF Len(w.stackStack) > 1 THEN "True" ELSE "False"

GosubStack_Result_popsRoot(w, filename) ==
    IF filename # NoFile
    THEN IF ~IsAbs(filename) /\ w.sm.filename = NoFile THEN "False"
         ELSE CASE FileKind[filename] = "missing"    -> "False"
                [] FileKind[filename] = "unreadable" -> "raise"
                [] FileKind[filename] = "badjson"    -> "raise"
                [] FileKind[filename] = "empty"      -> "None"
                [] OTHER                             -> "True"
    ELSE IF Len(w.stackStack) >= 1 THEN "True" ELSE "False"

\* the value GosubStack returns to the runner thread: "True", "False", "None"
\* when the function falls off its end, "raise" when an exception leaves it
GosubStack_Result(w, filename) ==
    IF filename # NoFile
    THEN IF ~IsAbs(filename) /\ w.sm.filename = NoFile THEN "False"  \* dirname(None): TypeError
         ELSE CASE FileKind[filename] = "missing"    -> "False"
                [] FileKind[filename] = "unreadable" -> "raise"
                [] FileKind[filename] = "badjson"    -> "raise"
                [] FileKind[filename] = "empty"      -> "None"
                [] OTHER                             -> "True"
    ELSE IF Len(w.stackStack) > 1 THEN "True" ELSE "False"

\* the function GosubStack hands to RunOnMainAsync, when it hands one over
\* (by: the runner whose script made the call)
GosubStack_Func(w, filename, cardNumber, ioValue, frame) ==
    IF GosubStack_Result(w, filename) # "True" THEN <<>>
    ELSE IF filename # NoFile
         THEN <<[op |-> "push", frame |-> frame, filename |-> filename,
                 cardNumber |-> cardNumber, ioValue |-> ioValue, by |-> w.sm.runner]>>
         ELSE <<[op |-> "pop", frame |-> frame, ioValue |-> ioValue, by |-> w.sm.runner]>>

\* the body of the function GosubStack marshalled, run on the main thread
RunFunc(w, func) ==
    IF func.op = "push"
    THEN IF SetDataRaises(func.filename) THEN w
         ELSE LET stackModel == FreeModel(w)
                  w1 == [w EXCEPT !.models[stackModel] = StackModel_SetData(func.filename)]
              IN  PushStack(w1, stackModel, func.filename, func.cardNumber, func.ioValue)
    ELSE PopStack(w, func.ioValue, FALSE)

\* objects no frame and no stack manager refers to any more are forgotten
Collect(w) ==
    LET liveR == {w.stackStack[i].runner : i \in 1..Len(w.stackStack)} \cup {w.sm.runner}
        liveM == {w.stackStack[i].stackModel : i \in 1..Len(w.stackStack)}
                    \cup {w.sm.stackModel}
    IN  [w EXCEPT !.runners = [r \in RunnerIds |-> IF r \in liveR THEN @[r] ELSE NewRunner],
                  !.models = [m \in ModelIds |-> IF m \in liveM THEN @[m] ELSE DeadModel]]

\* ViewerApp.OpenFile: "raise" when an exception leaves it, else "done"
OpenFile_Result(filename) ==
    IF FileKind[filename] \in {"missing", "unreadable", "badjson", "unloadable"}
    THEN "raise" ELSE "done"

\* ViewerApp.OpenFile, the frame: a truthy document has the installed frame
\* hidden, set down and destroyed before the new model is loaded
OpenFile_App(a, filename) ==
    IF FileKind[filename] \in {"missing", "unreadable", "badjson", "empty"} THEN a
    ELSE IF SetDataRaises(filename) THEN [a EXCEPT !.setDown = TRUE, !.destroyed = TRUE]
    ELSE [frame |-> a.frame + 1, setDown |-> FALSE, destroyed |-> FALSE]

\* ViewerApp.OpenFile, the new frame: ViewerFrame(None, False) and
\* PushStack(stackModel, filename, 0)
OpenFile_Frame(w, filename) ==
    IF FileKind[filename] = "stack"
    THEN LET w0 == NewViewerFrame
             stackModel == FreeModel(w0)
             w1 == [w0 EXCEPT !.models[stackModel] = StackModel_SetData(filename)]
         IN  PushStack(w1, stackModel, filename, 0, NoValue)
    ELSE w

\* ViewerApp.NewFile
NewFile == PushStack(NewViewerFrame, NewViewerFrame.sm.stackModel, NoFile, 0, NoValue)

\* ---------------------------------------------------------------- cardstock/stackModel.py: the entity model

\* Text is a sequence of pieces, a number at the end of a name being a piece
\* of its own: the name "card_2" is <<"card_", "2">>, the path
\* "card_2.button1" is <<"card_", "2", ".", "button", "1">>

\* parent = None
NoNode == -1

\* the stack, its cards and their child models
NodeIds == 0..(MaxCards * (MaxChildren + 1))

\* an id no model object has yet
FreeNode == [type |-> "free", properties |-> <<>>, parent |-> NoNode, childModels |-> <<>>]

Alloc(nodes) ==
    CHOOSE n \in NodeIds :
        /\ nodes[n].type = "free"
        /\ \A k \in NodeIds : nodes[k].type = "free" => n <= k

\* dict.update: the keys of data take data's values, the others keep theirs
Updated(properties, data) ==
    [k \in DOMAIN properties \cup DOMAIN data |->
        IF k \in DOMAIN data THEN data[k] ELSE properties[k]]

\* dict.pop(key) on a dict that holds the key
Popped(properties, key) == [k \in DOMAIN properties \ {key} |-> properties[k]]

\* StackModel(None): a stack model with no card
NewStackModel ==
    [nodes |-> [n \in NodeIds |->
                  IF n = 0
                  THEN [type |-> "stack",
                        properties |-> [name |-> <<"stack">>, position |-> 0, size |-> 500,
                                        can_save |-> FALSE, can_resize |-> FALSE],
                        parent |-> NoNode, childModels |-> <<>>]
                  ELSE FreeNode],
     root |-> 0, migrated |-> FALSE]

\* StackModel.AppendCardModel
AppendCardModel(d, card) ==
    [d EXCEPT !.nodes[card].parent = d.root,
              !.nodes[d.root].childModels = Append(@, card)]

\* ViewModel.SetData for a card: the card's properties and its child models,
\* each with the card as parent
RECURSIVE CardModel_AddChildren(_, _, _)
CardModel_AddChildren(d, card, data) ==
    IF data = <<>> THEN d
    ELSE LET m == Alloc(d.nodes)
             d1 == [d EXCEPT !.nodes[m] = [type |-> Head(data).type,
                                           properties |-> Head(data).properties,
                                           parent |-> card, childModels |-> <<>>],
                             !.nodes[card].childModels = Append(@, m)]
         IN  CardModel_AddChildren(d1, card, Tail(data))

\* StackModel.SetData, the loop over stackData["cards"]
RECURSIVE SetData_Cards(_, _)
SetData_Cards(d, cards) ==
    IF cards = <<>> THEN d
    ELSE LET m == Alloc(d.nodes)
             d1 == [d EXCEPT !.nodes[m] = [type |-> "card",
                                           properties |-> Head(cards).properties,
                                           parent |-> d.root, childModels |-> <<>>]]
             d2 == CardModel_AddChildren(d1, m, Head(cards).childModels)
         IN  SetData_Cards(AppendCardModel(d2, m), Tail(cards))

\* version.FILE_FORMAT_VERSION
CurrentFormat == 2

\* StackModel.SetData
SetData(d, stackData) ==
    LET d1 == [d EXCEPT !.nodes[d.root].properties = Updated(@, stackData.properties),
                        !.nodes[d.root].childModels = <<>>,
                        !.migrated = stackData.CardStock_stack_format # CurrentFormat]
    IN  SetData_Cards(d1, stackData.cards)

\* ViewModel.GetData: type, properties and the child models' data
RECURSIVE ViewModel_GetData(_, _)
ViewModel_GetData(d, m) ==
    [type |-> d.nodes[m].type,
     properties |-> d.nodes[m].properties,
     childModels |-> [i \in 1..Len(d.nodes[m].childModels) |->
                         ViewModel_GetData(d, d.nodes[m].childModels[i])]]

GetData_popsSize(d) ==
    [CardStock_stack_format |-> CurrentFormat,
     properties |-> Popped(Popped(Popped(d.nodes[d.root].properties, "position"), "name"), "size"),
     cards |-> [i \in 1..Len(d.nodes[d.root].childModels) |->
                   ViewModel_GetData(d, d.nodes[d.root].childModels[i])]]

\* StackModel.GetData
GetData(d) ==
    [CardStock_stack_format |-> CurrentFormat,
     properties |-> Popped(Popped(d.nodes[d.root].properties, "position"), "name"),
     cards |-> [i \in 1..Len(d.nodes[d.root].childModels) |->
                   ViewModel_GetData(d, d.nodes[d.root].childModels[i])]]

\* a model object with everything below it: types, properties, order
RECURSIVE Tree(_, _)
Tree(d, m) ==
    [type |-> d.nodes[m].type,
     properties |-> d.nodes[m].properties,
     childModels |-> [i \in 1..Len(d.nodes[m].childModels) |->
                         Tree(d, d.nodes[m].childModels[i])]]

\* str.split('.')
RECURSIVE Split(_)
Split(text) ==
    IF text = <<>> THEN << <<>> >>
    ELSE LET rest == Split(Tail(text))
         IN  IF Head(text) = "." THEN << <<>> >> \o rest
             ELSE << <<Head(text)>> \o Head(rest) >> \o Tail(rest)

\* None
NotFound == [found |-> FALSE, node |-> NoNode]

\* StackModel.GetModelFromPath, the loop over parts: the first child with the
\* part as its name is descended into
RECURSIVE GetModelFromParts(_, _, _)
GetModelFromParts(d, m, parts) ==
    IF parts = <<>> THEN [found |-> TRUE, node |-> m]
    ELSE LET children == d.nodes[m].childModels
             hits == {i \in 1..Len(children) : d.nodes[children[i]].properties.name = Head(parts)}
         IN  IF hits = {} THEN NotFound
             ELSE GetModelFromParts(d, children[CHOOSE i \in hits : \A j \in hits : i <= j],
                                    Tail(parts))

GetModelFromPath_byIndex(d, path) ==
    LET parts == Split(path)
        cards == d.nodes[d.root].childModels
        index == CASE Head(parts) = <<"0">> -> 0 [] Head(parts) = <<"1">> -> 1
                   [] Head(parts) = <<"2">> -> 2 [] OTHER -> NoNode
    IN  IF index # NoNode /\ index < Len(cards)
        THEN GetModelFromParts(d, cards[index + 1], Tail(parts))
        ELSE GetModelFromParts(d, d.root, parts)

\* StackModel.GetModelFromPath
GetModelFromPath(d, path) == GetModelFromParts(d, d.root, Split(path))

\* the parts paths under test are made of: names of cards and child models,
\* numbers, and the empty text
PathParts ==
    {<<>>, <<"1">>, <<"5">>, <<"x">>, <<"card_", "1">>, <<"card_", "2">>,
     <<"button", "1">>, <<"button", "2">>}

\* '.'.join(parts)
RECURSIVE Join(_)
Join(parts) ==
    IF Len(parts) = 1 THEN parts[1]
    ELSE parts[1] \o <<".">> \o Join(Tail(parts))

\* the paths under test
Paths == UNION {{Join(parts) : parts \in [1..n -> PathParts]} : n \in 1..MaxParts}

\* a card's data
CardData(name, childModels) ==
    [type |-> "card", properties |-> [name |-> name, fill_color |-> "white"],
     childModels |-> childModels]

\* a child model's data
ViewData(type, name) == [type |-> type, properties |-> [name |-> name, position |-> 10]]

\* a stack file's data, in the current format
StackData(cards) ==
    [CardStock_stack_format |-> CurrentFormat,
     properties |-> [size |-> 500, can_save |-> FALSE, can_resize |-> FALSE],
     cards |-> cards]

\* the data of a stack file of three cards named card_1, card_2, card_3, with
\* a button named button1 on the second card and a field named x on the third
ThreeCardData ==
    StackData(<< CardData(<<"card_", "1">>, <<>>),
                 CardData(<<"card_", "2">>, <<ViewData("button", <<"button", "1">>)>>),
                 CardData(<<"card_", "3">>, <<ViewData("textfield", <<"x">>)>>) >>)

\* the data of a stack file whose first card is named 1 and holds button1,
\* and whose second card holds a button of another name
NumberedCardData ==
    StackData(<< CardData(<<"1">>, <<ViewData("button", <<"button", "1">>)>>),
                 CardData(<<"card_", "2">>, <<ViewData("button", <<"button", "2">>)>>),
                 CardData(<<"5">>, <<>>) >>)

\* the child models' data a card of a document under test is loaded with
AllViews ==
    << ViewData("button", <<"button", "1">>), ViewData("textfield", <<"x">>),
       ViewData("button", <<"button", "2">>), ViewData("textfield", <<"y">>) >>

ChildLists == {SubSeq(AllViews, 1, k) : k \in 0..MaxChildren}

CardNames == << <<"card_", "1">>, <<"card_", "2">>, <<"card_", "3">>, <<"card_", "4">>, <<"card_", "5">> >>

\* the cards of a stack file: one to MaxCards cards, named by position
CardLists ==
    UNION {{[i \in 1..n |-> CardData(CardNames[i], children[i])] :
               children \in [1..n -> ChildLists]} : n \in 1..MaxCards}

\* the stack models under test: loaded from a file, the stack's size and
\* can_save as the file has them, its name and position as constructed
Documents ==
    {SetData(NewStackModel,
             [StackData(cards) EXCEPT !.properties.size = size, !.properties.can_save = can_save]) :
        cards \in CardLists, size \in {300, 500}, can_save \in BOOLEAN}

\* ---------------------------------------------------------------- stackManager.py: the designer

\* The designer's StackManager is a record g: the stack model it edits (nodes,
\* root, as above) with the manager's own fields beside it.

NameOf(g, m) == g.nodes[m].properties.name

CardModels(g) == g.nodes[g.root].childModels

\* [m.GetProperty("name") for m in self.stackModel.childModels]
CardNamesOf(g) == {NameOf(g, CardModels(g)[i]) : i \in 1..Len(CardModels(g))}

\* the objects not yet constructed
FreeNodes(g) == {n \in NodeIds : g.nodes[n].type = "free"}

\* name.rstrip("0123456789")
StripDigits(name) ==
    IF name # <<>> /\ Last(name) \in {Numeral(i) : i \in 0..99} THEN Front(name) ELSE name

\* ViewModel.GetNextAvailableName: base with the first number from 1 that
\* makes a name not among the existing ones
ViewModel_GetNextAvailableName(base, existing) ==
    LET i == CHOOSE k \in 1..(Cardinality(existing) + 1) :
                 /\ Append(base, Numeral(k)) \notin existing
                 /\ \A j \in 1..(k - 1) : Append(base, Numeral(j)) \in existing
    IN  Append(base, Numeral(i))

DeduplicateName_once(name, existing) ==
    IF name \in existing THEN Append(StripDigits(name), Numeral(1)) ELSE name

\* ViewModel.DeduplicateName
DeduplicateName(name, existing) ==
    IF name \in existing
    THEN ViewModel_GetNextAvailableName(StripDigits(name), existing)
    ELSE name

\* CardModel(stackManager) with a name
NewCardModel(g, name) ==
    [g EXCEPT !.nodes[Alloc(g.nodes)] =
        [type |-> "card", properties |-> [name |-> name, fill_color |-> "white"],
         parent |-> NoNode, childModels |-> <<>>]]

\* StackModel.InsertCardModel
StackModel_InsertCardModel(g, index, card) ==
    [g EXCEPT !.nodes[card].parent = g.root,
              !.nodes[g.root].childModels = InsertAt(@, index, card)]

\* StackModel.RemoveCardModel
StackModel_RemoveCardModel(g, card) ==
    [g EXCEPT !.nodes[card].parent = NoNode,
              !.nodes[g.root].childModels = RemoveFirst(@, card)]

\* list.index(x)
IndexOf(s, x) == (CHOOSE i \in 1..Len(s) : s[i] = x /\ \A j \in 1..(i - 1) : s[j] # x) - 1

InsertNewCard_keepsIndex(g, name, atIndex) ==
    LET card == Alloc(g.nodes)
        g1 == NewCardModel(g, DeduplicateName(name, CardNamesOf(g)))
    IN  IF atIndex = -1 THEN AppendCardModel(g1, card)
        ELSE StackModel_InsertCardModel(g1, atIndex, card)

\* StackModel.InsertNewCard
InsertNewCard(g, name, atIndex) ==
    LET card == Alloc(g.nodes)
        shown == CardModels(g)[g.cardIndex + 1]
        g1 == NewCardModel(g, DeduplicateName(name, CardNamesOf(g)))
    IN  IF atIndex = -1 THEN AppendCardModel(g1, card)
        ELSE LET g2 == StackModel_InsertCardModel(g1, atIndex, card)
             IN  [g2 EXCEPT !.cardIndex = IndexOf(CardModels(g2), shown)]

Stack_add_card_noCheck(g, name, atNumber) ==
    [raised |-> FALSE, g |-> InsertNewCard(g, name, atNumber - 1)]

\* Stack.add_card(name, atNumber): ValueError for an atNumber out of bounds
Stack_add_card(g, name, atNumber) ==
    IF atNumber < 0 \/ atNumber > Len(CardModels(g)) + 1
    THEN [raised |-> TRUE, g |-> g]
    ELSE [raised |-> FALSE, g |-> InsertNewCard(g, name, atNumber - 1)]

\* self.uiCard.model
CardOf(g) == CardModels(g)[g.cardIndex + 1]

\* the elements of a list
Range(s) == {s[i] : i \in 1..Len(s)}

\* StackModel.RemoveCardModel called with any card model: the parent is
\* cleared, then list.remove raises ValueError for a card the stack has not
RemoveCardModel_Call(g, card) ==
    LET g1 == [g EXCEPT !.nodes[card].parent = NoNode]
    IN  IF card \in Range(CardModels(g))
        THEN [raised |-> FALSE, g |-> StackModel_RemoveCardModel(g, card)]
        ELSE [raised |-> TRUE, g |-> g1]

\* a second stack model of one card beside the designer's, as the stack
\* models of a viewer's stackStack are
WithOtherStack(g) ==
    LET stack == Alloc(g.nodes)
        g1 == [g EXCEPT !.nodes[stack] =
                   [type |-> "stack", properties |-> NewStackModel.nodes[0].properties,
                    parent |-> NoNode, childModels |-> <<>>]]
        card == Alloc(g1.nodes)
        g2 == NewCardModel(g1, <<"card_", "1">>)
    IN  [g2 EXCEPT !.nodes[card].parent = stack,
                   !.nodes[stack].childModels = <<card>>]

\* a model and every model below it
RECURSIVE Below(_, _)
Below(g, m) ==
    {m} \cup UNION {Below(g, c) : c \in Range(g.nodes[m].childModels)}

\* StackManager.GetAllUiViews: the card's views and the views inside its groups
GetAllUiViews(g) == UNION {Below(g, m) : m \in Range(g.uiViews)}

\* uiView.parent.model.type == "group", NoNode being None
InGroup(g, uiView) ==
    /\ uiView # NoNode
    /\ g.nodes[uiView].parent # NoNode
    /\ g.nodes[g.nodes[uiView].parent].type = "group"

SelectUiView_keepsOthers(g, uiView, extend) ==
    IF ~g.isEditing \/ uiView = NoNode THEN g
    ELSE IF uiView \in Range(g.selectedViews) THEN g
    ELSE [g EXCEPT !.selectedViews = Append(@, uiView)]

\* StackManager.SelectUiView
SelectUiView(g, uiView, extend) ==
    IF ~g.isEditing THEN g
    ELSE LET selected == g.selectedViews
             extend1 == extend /\ ~InGroup(g, uiView)
             extend2 == extend1 /\ ~(Len(selected) > 0 /\ InGroup(g, selected[1]))
             extend3 == extend2 /\
                        ~(uiView # NoNode /\
                          ((g.nodes[uiView].type = "card") #
                           (Len(selected) > 0 /\ g.nodes[selected[1]].type = "card")))
             kept == IF Len(selected) > 0 /\ ~extend3 THEN <<>> ELSE selected
         IN  IF uiView = NoNode THEN [g EXCEPT !.selectedViews = kept]
             ELSE IF extend3 /\ uiView \in Range(kept)
             THEN [g EXCEPT !.selectedViews = RemoveFirst(kept, uiView)]
             ELSE [g EXCEPT !.selectedViews = Append(kept, uiView)]

\* StackManager.SetEditing: the mode is set first, the selection cleared after
SetEditing(g, editing) ==
    LET g1 == [g EXCEPT !.isEditing = editing]
    IN  IF ~editing THEN SelectUiView(g1, NoNode, FALSE) ELSE g1

\* StackManager.SelectAll
RECURSIVE SelectEach(_, _)
SelectEach(g, uiViews) ==
    IF uiViews = <<>> THEN g
    ELSE SelectEach(SelectUiView(g, Head(uiViews), TRUE), Tail(uiViews))

SelectAll(g) == SelectEach(SelectUiView(g, NoNode, FALSE), g.uiViews)

\* StackManager.ClearAllViews
ClearAllViews(g) == [SelectUiView(g, NoNode, FALSE) EXCEPT !.uiViews = <<>>]

\* ViewModel.AddChild
AddChild(g, parent, m) == [g EXCEPT !.nodes[parent].childModels = Append(@, m)]

\* ViewModel.RemoveChild
RemoveChild(g, parent, m) ==
    [g EXCEPT !.nodes[m].parent = NoNode,
              !.nodes[parent].childModels = RemoveFirst(@, m)]

AddUiViewInternal_noParent(g, m) ==
    LET g1 == [g EXCEPT !.uiViews = Append(@, m)]
    IN  IF m \in Range(g.nodes[CardOf(g)].childModels) THEN g1
        ELSE AddChild(g1, CardOf(g), m)

\* StackManager.AddUiViewInternal with a model
AddUiViewInternal(g, m) ==
    LET g1 == [g EXCEPT !.uiViews = Append(@, m), !.nodes[m].parent = CardOf(g)]
    IN  IF m \in Range(g.nodes[CardOf(g)].childModels) THEN g1
        ELSE AddChild(g1, CardOf(g), m)

\* AddUiViewsCommand.Do: AddUiViewInternal for each model
RECURSIVE AddUiViewsCommand_Do(_, _)
AddUiViewsCommand_Do(g, models) ==
    IF models = <<>> THEN g
    ELSE AddUiViewsCommand_Do(AddUiViewInternal(g, Head(models)), Tail(models))

\* the names of the models of the current card, its own and those in groups
NamesInCard(g) == {NameOf(g, m) : m \in Below(g, CardOf(g))}

\* CardModel.DeduplicateNameInCard
DeduplicateNameInCard(g, name, names) == DeduplicateName(name, NamesInCard(g) \cup names)

\* CardModel.GetNextAvailableNameInCard
GetNextAvailableNameInCard(g, base) == ViewModel_GetNextAvailableName(base, NamesInCard(g))

\* StackManager.AddUiViewsFromModels(models, canUndo=False): a model the card
\* does not hold yet gets a name no model of the card has
RECURSIVE DeduplicateNew(_, _)
DeduplicateNew(g, models) ==
    IF models = <<>> THEN g
    ELSE LET m == Head(models)
             g1 == IF m \in Range(g.nodes[CardOf(g)].childModels) THEN g
                   ELSE [g EXCEPT !.nodes[m].properties.name =
                                      DeduplicateNameInCard(g, NameOf(g, m), {})]
         IN  DeduplicateNew(g1, Tail(models))

AddUiViewsFromModels(g, models) == AddUiViewsCommand_Do(DeduplicateNew(g, models), models)

\* StackManager.RemoveUiViewByModel
RemoveUiViewByModel(g, viewModel) ==
    IF viewModel \notin Range(g.uiViews) THEN g
    ELSE LET g1 == IF viewModel \in Range(g.selectedViews)
                   THEN SelectUiView(g, viewModel, TRUE) ELSE g
             g2 == [g1 EXCEPT !.nodes[viewModel].parent = NoNode,
                              !.uiViews = RemoveFirst(@, viewModel)]
         IN  IF viewModel \in Range(g2.nodes[CardOf(g)].childModels)
             THEN RemoveChild(g2, CardOf(g), viewModel) ELSE g2

RECURSIVE RemoveEach(_, _)
RemoveEach(g, models) ==
    IF models = <<>> THEN g
    ELSE RemoveEach(RemoveUiViewByModel(g, Head(models)), Tail(models))

\* GroupModel.AddChildModels: the group becomes the parent of each model
RECURSIVE AddChildModels(_, _, _)
AddChildModels(g, group, models) ==
    IF models = <<>> THEN g
    ELSE AddChildModels(AddChild([g EXCEPT !.nodes[Head(models)].parent = group],
                                 group, Head(models)),
                        group, Tail(models))

\* StackManager.GroupModelsInternal(models): a new group holds the models
GroupModelsInternal(g, models) ==
    IF Len(models) > 1
    THEN LET group == Alloc(g.nodes)
             g1 == [g EXCEPT !.nodes[group] =
                        [type |-> "group",
                         properties |-> [name |-> GetNextAvailableNameInCard(g, <<"group_">>),
                                         position |-> 10],
                         parent |-> NoNode, childModels |-> <<>>]]
             g2 == RemoveEach(g1, models)
             g3 == AddChildModels(g2, group, models)
         IN  AddUiViewsFromModels(g3, <<group>>)
    ELSE g

\* StackManager.UngroupModelsInternal, one group: its children leave it and
\* become views of the card
RECURSIVE RemoveChildren(_, _, _)
RemoveChildren(g, group, children) ==
    IF children = <<>> THEN g
    ELSE RemoveChildren(RemoveChild(g, group, Head(children)), group, Tail(children))

RECURSIVE UngroupEach_reversed(_, _)
UngroupEach_reversed(g, groups) ==
    IF groups = <<>> THEN g
    ELSE LET group == Head(groups)
             childModels == g.nodes[group].childModels
             g1 == RemoveChildren(g, group, childModels)
             g2 == RemoveUiViewByModel(g1, group)
         IN  UngroupEach_reversed(AddUiViewsFromModels(g2, Reverse(childModels)), Tail(groups))

RECURSIVE UngroupEach(_, _)
UngroupEach(g, groups) ==
    IF groups = <<>> THEN g
    ELSE LET group == Head(groups)
             childModels == g.nodes[group].childModels
             g1 == RemoveChildren(g, group, childModels)
             g2 == RemoveUiViewByModel(g1, group)
         IN  UngroupEach(AddUiViewsFromModels(g2, childModels), Tail(groups))

\* StackManager.UngroupModelsInternal
UngroupModelsInternal(g, groups) ==
    IF Len(groups) > 0 THEN UngroupEach(SelectUiView(g, NoNode, FALSE), groups) ELSE g

\* the selected views among uiViews, in the order of uiViews
SelectedModels(g) == SelectSeq(g.uiViews, LAMBDA m : m \in Range(g.selectedViews))

\* StackManager.GroupSelectedViews: Submit(GroupUiViewsCommand(models))
GroupSelectedViews(g) ==
    IF Len(SelectedModels(g)) >= 2 THEN GroupModelsInternal(g, SelectedModels(g)) ELSE g

\* StackManager.UngroupSelectedViews: Submit(UngroupUiViewsCommand(models)); the
\* groups, ungrouped, are referred to by nothing
UngroupSelectedViews(g) ==
    LET groups == SelectSeq(SelectedModels(g), LAMBDA m : g.nodes[m].type = "group")
    IN  IF Len(groups) >= 1
        THEN [UngroupModelsInternal(g, groups) EXCEPT
                 !.nodes = [n \in NodeIds |-> IF n \in Range(groups) THEN FreeNode ELSE @[n]]]
        ELSE g

\* StackManager.CreateViews
CreateViews(g) ==
    AddUiViewsFromModels([g EXCEPT !.uiViews = <<>>], g.nodes[CardOf(g)].childModels)

\* self.runner.RunHandler(cardModel, handler, None), when there is a runner;
\* every card is taken to have an OnShowCard handler
RunHandler(g, card, handler) ==
    IF g.runner
    THEN [g EXCEPT !.handled = Append(@, [handler |-> handler, card |-> card])]
    ELSE g

Designer_LoadCardAtIndex_showsOnReload(g, index, reload) ==
    IF index # g.cardIndex \/ reload
    THEN LET g0 == IF ~g.isEditing /\ g.cardIndex # NoIndex
                   THEN RunHandler(g, CardModels(g)[g.cardIndex + 1], "OnHideCard")
                   ELSE g
             g1 == ClearAllViews([g0 EXCEPT !.cardIndex = index])
         IN  IF index # NoIndex
             THEN LET g2 == CreateViews(g1)
                      g3 == SelectUiView(g2, CardOf(g2), FALSE)
                  IN  IF ~g.isEditing THEN RunHandler(g3, CardOf(g3), "OnShowCard") ELSE g3
             ELSE g1
    ELSE g

Designer_LoadCardAtIndex_noSelect(g, index, reload) ==
    IF index # g.cardIndex \/ reload
    THEN LET g0 == IF ~g.isEditing /\ g.cardIndex # NoIndex /\ ~reload
                   THEN RunHandler(g, CardModels(g)[g.cardIndex + 1], "OnHideCard")
                   ELSE g
             g1 == ClearAllViews([g0 EXCEPT !.cardIndex = index])
         IN  IF index # NoIndex
             THEN LET g2 == CreateViews(g1)
                  IN  IF ~g.isEditing /\ ~reload
                      THEN RunHandler(g2, CardOf(g2), "OnShowCard")
                      ELSE g2
             ELSE g1
    ELSE g

\* StackManager.LoadCardAtIndex(index, reload)
Designer_LoadCardAtIndex(g, index, reload) ==
    IF index # g.cardIndex \/ reload
    THEN LET g0 == IF ~g.isEditing /\ g.cardIndex # NoIndex /\ ~reload
                   THEN RunHandler(g, CardModels(g)[g.cardIndex + 1], "OnHideCard")
                   ELSE g
             g1 == ClearAllViews([g0 EXCEPT !.cardIndex = index])
         IN  IF index # NoIndex
             THEN LET g2 == CreateViews(g1)
                      g3 == SelectUiView(g2, CardOf(g2), FALSE)
                  IN  IF ~g.isEditing /\ ~reload
                      THEN RunHandler(g3, CardOf(g3), "OnShowCard")
                      ELSE g3
             ELSE g1
    ELSE g

\* StackManager.AddCard: Submit(AddNewUiViewCommand(cardIndex+1, "card", newCard))
Designer_AddCard(g) ==
    LET card == Alloc(g.nodes)
        g1 == NewCardModel(g, DeduplicateName(<<"card_", "1">>, CardNamesOf(g)))
    IN  Designer_LoadCardAtIndex(StackModel_InsertCardModel(g1, g.cardIndex + 1, card),
                                 g.cardIndex + 1, TRUE)

\* StackManager.DuplicateCard
Designer_DuplicateCard(g) ==
    LET card == Alloc(g.nodes)
        data == ViewModel_GetData(g, CardModels(g)[g.cardIndex + 1])
        g1 == NewCardModel(g, data.properties.name)
        g2 == CardModel_AddChildren([g1 EXCEPT !.nodes[card].properties = data.properties],
                                    card, data.childModels)
        g3 == [g2 EXCEPT !.nodes[card].properties.name =
                              DeduplicateName(data.properties.name, CardNamesOf(g))]
    IN  Designer_LoadCardAtIndex(StackModel_InsertCardModel(g3, g.cardIndex + 1, card),
                                 g.cardIndex + 1, TRUE)

\* a model object nothing refers to any more, and the objects below it
RECURSIVE Released(_, _)
Released(g, ms) ==
    IF ms = {} THEN g
    ELSE LET m == CHOOSE k \in ms : TRUE
             below == {g.nodes[m].childModels[i] : i \in 1..Len(g.nodes[m].childModels)}
         IN  Released([g EXCEPT !.nodes[m] = FreeNode], (ms \ {m}) \cup below)

\* StackManager.RemoveCard: Submit(RemoveUiViewsCommand(index, [card]))
Designer_RemoveCard(g) ==
    IF Len(CardModels(g)) > 1
    THEN LET card == CardModels(g)[g.cardIndex + 1]
             g1 == Released(StackModel_RemoveCardModel(g, card), {card})
         IN  Designer_LoadCardAtIndex(g1, IF g.cardIndex >= Len(CardModels(g)) - 1
                                          THEN Len(CardModels(g)) - 2 ELSE g.cardIndex,
                                      TRUE)
    ELSE g

\* ViewTool.OnMouseDown then OnMouseUp: a view of the tool's type is made by
\* AddUiViewInternal(type) and selected; when the mouse is released it is
\* removed and added again by AddUiViewCommand, and selected
ViewTool_Drag(g, type) ==
    LET m == Alloc(g.nodes)
        g1 == [g EXCEPT !.nodes[m] =
                   [type |-> type,
                    properties |-> [name |-> GetNextAvailableNameInCard(g, <<type>>),
                                    position |-> 10],
                    parent |-> NoNode, childModels |-> <<>>]]
        g2 == SelectUiView(AddUiViewInternal(g1, m), m, FALSE)
        g3 == AddUiViewInternal(RemoveUiViewByModel(g2, m), m)
    IN  SelectUiView(g3, m, FALSE)

\* StackManager.Cut: a selected card is removed by RemoveCard, selected views
\* that are not inside a group by RemoveUiViewsCommand, and are then referred
\* to by nothing
Designer_Cut(g) ==
    LET models == g.selectedViews
        deleteModels == SelectSeq(models, LAMBDA m : ~InGroup(g, m))
    IN  IF Len(models) = 1 /\ g.nodes[models[1]].type = "card" THEN Designer_RemoveCard(g)
        ELSE IF Len(models) > 0
        THEN Released(RemoveEach(g, deleteModels), Range(deleteModels))
        ELSE g

\* StackManager.LoadCardAtIndex(index) called with any integer: the handler of
\* the card left is run, cardIndex set and the views cleared before
\* GetCardModel(index) is reached, childModels[index], which raises IndexError
\* for an index of no card and counts a negative index from the end
LoadCardAtIndex_Call(g, index) ==
    LET n == Len(CardModels(g))
    IN  IF index = g.cardIndex THEN [raised |-> FALSE, g |-> g]
        ELSE IF 0 <= index /\ index < n
        THEN [raised |-> FALSE, g |-> Designer_LoadCardAtIndex(g, index, FALSE)]
        ELSE LET g0 == IF ~g.isEditing /\ g.cardIndex # NoIndex
                       THEN RunHandler(g, CardModels(g)[g.cardIndex + 1], "OnHideCard")
                       ELSE g
                 g1 == ClearAllViews(g0)
             IN  IF index >= n \/ index < 0 - n
                 THEN [raised |-> TRUE, g |-> [g1 EXCEPT !.cardIndex = index]]
                 ELSE LET g2 == CreateViews([g1 EXCEPT !.cardIndex = n + index])
                          g3 == SelectUiView(g2, CardOf(g2), FALSE)
                          g4 == IF ~g.isEditing THEN RunHandler(g3, CardOf(g3), "OnShowCard")
                                ELSE g3
                      IN  [raised |-> FALSE, g |-> [g4 EXCEPT !.cardIndex = index]]

\* the numbers of a set, ascending: list.sort()
RECURSIVE Sorted(_)
Sorted(S) ==
    IF S = {} THEN <<>>
    ELSE LET least == CHOOSE x \in S : \A y \in S : x <= y
         IN  <<least>> \o Sorted(S \ {least})

\* the models at the indexes from are taken out of the list and put in again
\* at the indexes to, lowest first
RECURSIVE InsertEach(_, _, _)
InsertEach(s, to, models) ==
    IF models = <<>> THEN s
    ELSE InsertEach(InsertAt(s, Head(to), Head(models)), Tail(to), Tail(models))

MoveModels(s, from, to) ==
    LET models == [i \in 1..Len(from) |-> s[from[i] + 1]]
    IN  InsertEach(SelectSeq(s, LAMBDA m : m \notin Range(models)), to, models)

\* ReorderUiViewsCommand.Do: the card's child models at oldIndexes move to
\* newIndexes, and the card's views are made again in the new order
ReorderUiViewsCommand_Do(g, c) ==
    LET moved == MoveModels(g.nodes[CardOf(g)].childModels, c.oldIndexes, c.newIndexes)
    IN  [g EXCEPT !.nodes[CardOf(g)].childModels = moved, !.uiViews = moved]

\* ReorderUiViewsCommand.Undo: they move back from newIndexes to oldIndexes
ReorderUiViewsCommand_Undo(g, c) ==
    LET moved == MoveModels(g.nodes[CardOf(g)].childModels, c.newIndexes, c.oldIndexes)
    IN  [g EXCEPT !.nodes[CardOf(g)].childModels = moved, !.uiViews = moved]

\* AddUiViewCommand.Do adds the view of the command's model again,
\* AddUiViewCommand.Undo removes it; the other command of the designer's
\* history is ReorderUiViewsCommand
Command_Do(g, c) ==
    IF c.cmd = "AddUiView" THEN AddUiViewInternal(g, c.model)
    ELSE ReorderUiViewsCommand_Do(g, c)

Command_Undo(g, c) ==
    IF c.cmd = "AddUiView" THEN RemoveUiViewByModel(g, c.model)
    ELSE ReorderUiViewsCommand_Undo(g, c)

\* CommandProcessor.Submit(command) of the designer's stack manager
Designer_Submit(g, c) ==
    [Command_Do(g, c) EXCEPT !.commands = Append(g.commands, c),
                             !.redoCommands = <<>>]

\* StackManager.Undo
Designer_Undo(g) ==
    IF g.commands = <<>> THEN g
    ELSE [Command_Undo(g, Last(g.commands)) EXCEPT
             !.commands = Front(g.commands),
             !.redoCommands = Append(g.redoCommands, Last(g.commands))]

\* StackManager.Redo
Designer_Redo(g) ==
    IF g.redoCommands = <<>> THEN g
    ELSE [Command_Do(g, Last(g.redoCommands)) EXCEPT
             !.commands = Append(g.commands, Last(g.redoCommands)),
             !.redoCommands = Front(g.redoCommands)]

\* ViewTool.OnMouseDown: a view of the tool's type is made by
\* AddUiViewInternal(type), with a new model, and selected
ViewTool_OnMouseDown(g, type) ==
    LET m == Alloc(g.nodes)
        g1 == [g EXCEPT !.nodes[m] =
                   [type |-> type,
                    properties |-> [name |-> GetNextAvailableNameInCard(g, <<type>>),
                                    position |-> 10],
                    parent |-> NoNode, childModels |-> <<>>]]
    IN  SelectUiView(AddUiViewInternal(g1, m), m, FALSE)

\* ViewTool.OnMouseUp for the view m of the gesture: when the view's size
\* differs from (0, 0) the view is removed, added again by a submitted
\* AddUiViewCommand and selected; otherwise nothing is done to it
ViewTool_OnMouseUp(g, m, dragged) ==
    IF dragged
    THEN LET c == [cmd |-> "AddUiView", cardIndex |-> g.cardIndex, model |-> m]
         IN  SelectUiView(Designer_Submit(RemoveUiViewByModel(g, m), c), m, FALSE)
    ELSE g

\* the index ReorderSelectedViews gives the i-th moved view, i from 0
NewIndex(direction, firstIndex, i, children, moved) ==
    CASE direction = "end"   -> 0 + i
      [] direction = "fwd"   -> firstIndex + 1 + i
      [] direction = "back"  -> firstIndex - 1 + i
      [] direction = "front" -> children - moved + i

RECURSIVE SubmitEach(_, _, _, _)
SubmitEach(g, cardIndex, old, new) ==
    IF old = <<>> THEN g
    ELSE SubmitEach(Designer_Submit(g, [cmd |-> "ReorderUiViews", cardIndex |-> cardIndex,
                                        oldIndexes |-> <<Head(old)>>,
                                        newIndexes |-> <<Head(new)>>]),
                    cardIndex, Tail(old), Tail(new))

ReorderSelectedViews_perView(g, direction) ==
    LET selected == g.selectedViews
        children == g.nodes[CardOf(g)].childModels
    IN  IF \E i \in 1..Len(selected) : selected[i] = CardOf(g) \/ InGroup(g, selected[i])
        THEN g
        ELSE LET oldIndexes == Sorted({IndexOf(children, selected[i]) : i \in 1..Len(selected)})
                 newIndexes == [i \in 1..Len(oldIndexes) |->
                                   NewIndex(direction, oldIndexes[1], i - 1,
                                            Len(children), Len(oldIndexes))]
             IN  IF Len(oldIndexes) = 0 THEN g
                 ELSE IF \E i \in 1..Len(newIndexes) :
                            newIndexes[i] < 0 \/ newIndexes[i] >= Len(children)
                 THEN g
                 ELSE SubmitEach(g, g.cardIndex, oldIndexes, newIndexes)

\* StackManager.ReorderSelectedViews
ReorderSelectedViews(g, direction) ==
    LET selected == g.selectedViews
        children == g.nodes[CardOf(g)].childModels
    IN  IF \E i \in 1..Len(selected) : selected[i] = CardOf(g) \/ InGroup(g, selected[i])
        THEN g
        ELSE LET oldIndexes == Sorted({IndexOf(children, selected[i]) : i \in 1..Len(selected)})
                 newIndexes == [i \in 1..Len(oldIndexes) |->
                                   NewIndex(direction, oldIndexes[1], i - 1,
                                            Len(children), Len(oldIndexes))]
             IN  IF Len(oldIndexes) = 0 THEN g
                 ELSE IF \E i \in 1..Len(newIndexes) :
                            newIndexes[i] < 0 \/ newIndexes[i] >= Len(children)
                 THEN g
                 ELSE Designer_Submit(g, [cmd |-> "ReorderUiViews", cardIndex |-> g.cardIndex,
                                          oldIndexes |-> oldIndexes,
                                          newIndexes |-> newIndexes])

\* a stack manager given the stack model d, before it loads a card: no
\* runner; handled holds the handlers dispatched by the latest step
NewManager(d, isEditing) ==
    [nodes |-> d.nodes, root |-> d.root, migrated |-> d.migrated, cardIndex |-> NoIndex,
     uiViews |-> <<>>, selectedViews |-> <<>>, isEditing |-> isEditing, edits |-> 0,
     runner |-> FALSE, handled |-> <<>>, commands |-> <<>>, redoCommands |-> <<>>,
     lastGroup |-> [group |-> NoNode, models |-> <<>>, trees |-> <<>>, uiViews |-> <<>>]]

\* StackManager.SetStackModel, in the designer
Designer_SetStackModel(d) == Designer_LoadCardAtIndex(NewManager(d, TRUE), 0, FALSE)

\* ViewerFrame.RunViewer of the first stack of a viewer: the stack manager,
\* not editing, is given the model, then the runner, then LoadCardAtIndex(None)
\* and LoadCardAtIndex(cardIndex), 0 for an index that is no card's
Viewer_RunViewer(d, cardIndex) ==
    LET g1 == Designer_LoadCardAtIndex(NewManager(d, FALSE), 0, FALSE)
        g2 == [g1 EXCEPT !.runner = TRUE]
        g3 == Designer_LoadCardAtIndex(g2, NoIndex, FALSE)
        index == IF 0 <= cardIndex /\ cardIndex < Len(CardModels(g3)) THEN cardIndex ELSE 0
    IN  Designer_LoadCardAtIndex(g3, index, FALSE)

\* a stack file of two cards named card and card1, three views on the first
PlainCardData ==
    StackData(<< CardData(<<"card">>, <<ViewData("button", <<"button", "1">>),
                                        ViewData("textfield", <<"x">>),
                                        ViewData("button", <<"button", "2">>)>>),
                 CardData(<<"card", "1">>, <<>>) >>)

\* a stack file of one card, as a new stack has
OneCardData == StackData(<< CardData(<<"card_", "1">>, <<>>) >>)

\* StackManager.__init__: a stack model of one card
NewDesigner == Designer_SetStackModel(SetData(NewStackModel, OneCardData))

\* the designer with a stack whose first card holds a group of two views and
\* a button: the views of PlainCardData with the first two grouped
GroupedDesigner ==
    LET g == Designer_SetStackModel(SetData(NewStackModel, PlainCardData))
        models == SubSeq(g.uiViews, 1, 2)
    IN  SelectUiView(GroupModelsInternal(g, models), CardOf(g), FALSE)

DesignerInit ==
    IF program = "designer"
    THEN \/ \E data \in {OneCardData, PlainCardData, ThreeCardData} :
               designer = Designer_SetStackModel(SetData(NewStackModel, data))
         \/ designer = GroupedDesigner
    ELSE IF program = "running"
    THEN \E data \in {OneCardData, PlainCardData, ThreeCardData}, cardIndex \in 0..MaxCards :
            designer = Viewer_RunViewer(SetData(NewStackModel, data), cardIndex)
    ELSE designer = NewDesigner

\* ---------------------------------------------------------------- killableThread.py

WorkerIds == 1..MaxWorkers

\* the functions a script calls through RunOnMain
Callables == {"num_cards", "card_index", "card_with_number"}

\* a callable that raises on the main thread: card_with_number with a number
\* that is out of bounds raises ValueError
Raises(callable) == callable = "card_with_number"

\* callable(*args, **kwargs), evaluated on the main thread
Call(w, callable) ==
    IF callable = "num_cards" THEN Len(Cards(w)) ELSE w.sm.cardIndex

\* a runner thread that has made no call yet
\* (afterKill: the thread made its latest call after another was terminated)
NewWorker ==
    [pc |-> "running", callable |-> "none", own |-> <<>>, got |-> <<>>, calls |-> 0,
     afterKill |-> FALSE, raised |-> FALSE]

\* to_main_sync on a thread that is not the main thread, up to the wait:
\* CallAfter(to_main_helper, callable)
to_main_sync_CallAfter(queue, callable, thread) ==
    Append(queue, [op |-> "to_main_helper", callable |-> callable, thread |-> thread])

\* to_main_helper: KillableThread.returnQueue.put(ret)
to_main_helper(q, ret) == Append(q, ret)

\* ---------------------------------------------------------------- the viewer's steps

W == [stackStack |-> stackStack, rootRunner |-> rootRunner, sm |-> stackManager,
      models |-> stackModels, runners |-> runners, log |-> <<>>]

SetW(w) ==
    /\ stackStack' = w.stackStack
    /\ rootRunner' = w.rootRunner
    /\ stackManager' = w.sm
    /\ stackModels' = w.models
    /\ runners' = w.runners

ViewerInit ==
    /\ \E w \in {Collect(NewFile), Collect(OpenFile_Frame(NewViewerFrame, "/three.cds"))} :
          /\ stackStack = w.stackStack
          /\ rootRunner = w.rootRunner
          /\ stackManager = w.sm
          /\ stackModels = w.models
          /\ runners = w.runners
          /\ cardsSnapshot = Cards(w)
    /\ cardsDone = <<>>
    /\ suspended = <<>>
    /\ mainQueue = <<>>
    /\ app = [frame |-> 1, setDown |-> FALSE, destroyed |-> FALSE]
    /\ workers = [k \in WorkerIds |-> NewWorker]
    /\ returnQueue = <<>>

QueuedPushes == Cardinality({i \in 1..Len(mainQueue) : mainQueue[i].op = "push"})

QueuedPops == Cardinality({i \in 1..Len(mainQueue) : mainQueue[i].op = "pop"})

RECURSIVE SumReturned(_)
SumReturned(rs) ==
    IF rs = {} THEN 0
    ELSE LET r == CHOOSE x \in rs : TRUE
         IN  Len(runners[r].returned) + SumReturned(rs \ {r})

\* the calls of GosubStack the scripts make, as <<filename, cardNumber, ioValue>>:
\* a call of every file but one on card 0 with setup value 7, a call of the
\* stack of three cards on card 2 with setup value 42, a return of 42
Requests ==
    {<<f, 0, 7>> : f \in Files \ {"/three.cds"}}
        \cup {<<"/three.cds", 2, 42>>, <<NoFile, 0, 42>>}

\* a script on the current runner's thread calls GosubStack
GosubStack ==
    \E req \in Requests :
      LET filename == req[1]
          cardNumber == req[2]
          ioValue == req[3]
          func == GosubStack_Func(W, filename, cardNumber, ioValue, app.frame)
      IN
        /\ program = "viewer"
        /\ ~app.destroyed
        /\ Len(mainQueue) < MaxQueue
        /\ filename # NoFile => Len(stackStack) + QueuedPushes < MaxDepth
        /\ filename = NoFile => SumReturned(RunnerIds) + QueuedPops < MaxReturned
        /\ mainQueue' = mainQueue \o func
        /\ lastOp' = [op |-> "GosubStack", filename |-> filename,
                      ret |-> GosubStack_Result(W, filename), queued |-> Len(func)]
        /\ UNCHANGED <<stackStack, rootRunner, stackManager, stackModels, runners, app>>
        /\ UNCHANGED <<syncVars, historyVars, pageVars, designer, probe, program>>

\* the main thread runs the next function GosubStack marshalled; one marshalled
\* by a frame that has been destroyed since finds no stack manager and changes
\* nothing
RunMain ==
    /\ program = "viewer"
    /\ mainQueue # <<>>
    /\ Head(mainQueue).op \in {"push", "pop"}
    /\ LET func == Head(mainQueue)
           gone == Gone(func, app)
           w == IF gone THEN W ELSE RunFunc(W, func)
       IN  /\ SetW(Collect(w))
           /\ lastOp' = [op |-> "RunMain", func |-> func, gone |-> gone, log |-> w.log,
                         report |-> IF Len(w.stackStack) < Len(stackStack)
                                    THEN <<PopReport(W, w)>> ELSE <<>>,
                         did |-> IF w = W THEN "nothing" ELSE func.op,
                         lost |-> IF Len(w.stackStack) < Len(stackStack)
                                  THEN Last(suspended) ELSE <<>>]
           /\ cardsSnapshot' = IF w = W THEN cardsSnapshot ELSE Cards(w)
           /\ cardsDone' = IF w = W THEN cardsDone ELSE <<>>
           /\ suspended' =
                IF Len(w.stackStack) > Len(stackStack)
                THEN Append(suspended, stackManager.commands)
                ELSE IF Len(w.stackStack) < Len(stackStack) THEN Front(suspended)
                ELSE suspended
    /\ mainQueue' = Tail(mainQueue)
    /\ UNCHANGED <<app, syncVars, pageVars, designer, probe, program>>

\* the runner thread takes a value returned to it (run_stack resumes)
TakeReturn ==
    \E r \in RunnerIds :
        /\ program = "viewer"
        /\ ~app.destroyed
        /\ runners[r].returned # <<>>
        /\ runners' = [runners EXCEPT ![r].returned = Tail(@)]
        /\ lastOp' = [op |-> "TakeReturn"]
        /\ UNCHANGED <<stackStack, rootRunner, stackManager, stackModels, mainQueue, app>>
        /\ UNCHANGED <<syncVars, historyVars, pageVars, designer, probe, program>>

ManagerStep(w, op) ==
    /\ program = "viewer"
    /\ ~app.destroyed
    /\ SetW(w)
    /\ lastOp' = op
    /\ cardsDone' = IF op.op \in {"AddCard", "RemoveCard", "Paste"}
                         /\ w.sm.commands # stackManager.commands
                    THEN Append(SubSeq(cardsDone, 1, Len(w.sm.commands) - 1), Cards(w))
                    ELSE cardsDone
    /\ UNCHANGED <<mainQueue, app, syncVars, cardsSnapshot, suspended, pageVars, designer, probe, program>>

\* a script goes to another card of the current stack
GotoCard ==
    \E index \in 0..(Len(Cards(W)) - 1) :
        /\ index # stackManager.cardIndex
        /\ ManagerStep(LoadCardAtIndex(W, index, FALSE), [op |-> "GotoCard"])

AddCard ==
    /\ Len(Cards(W)) < MaxCards
    /\ Len(stackManager.commands) < MaxCommands
    /\ ManagerStep(StackManager_AddCard(W),
                   [op |-> "AddCard", discarded |-> Len(stackManager.redoCommands)])

RemoveCard ==
    /\ Len(stackManager.commands) < MaxCommands
    /\ ManagerStep(StackManager_RemoveCard(W),
                   [op |-> "RemoveCard", discarded |-> Len(stackManager.redoCommands)])

Undo ==
    ManagerStep(StackManager_Undo(W),
                [op |-> "Undo", acted |-> stackManager.commands # <<>>])

Redo ==
    ManagerStep(StackManager_Redo(W),
                [op |-> "Redo", acted |-> stackManager.redoCommands # <<>>])

\* a card is pasted from the clipboard, as an undoable command or not
Paste ==
    \E canUndo \in BOOLEAN :
        /\ Len(Cards(W)) < MaxCards
        /\ Len(stackManager.commands) < MaxCommands
        /\ ManagerStep(StackManager_Paste(W, canUndo),
                       [op |-> "Paste", canUndo |-> canUndo,
                        discarded |-> Len(stackManager.redoCommands)])

\* the user closes the viewer's window; with unsaved changes of a stack that
\* has a file the user may cancel, and the close event is vetoed
OnClose ==
    \E cancel \in BOOLEAN :
        /\ program = "viewer"
        /\ ~app.destroyed
        /\ cancel => stackManager.filename # NoFile /\ stackModels[stackManager.stackModel].dirty
        /\ IF cancel
           THEN UNCHANGED <<stackStack, rootRunner, stackManager, stackModels, runners, app,
                            historyVars>>
           ELSE /\ SetW(Collect(OnClose_Frame(W)))
                /\ app' = OnClose_App(W, app)
                /\ cardsSnapshot' = Cards(OnClose_Frame(W))
                /\ cardsDone' = <<>>
                /\ suspended' = <<>>
        /\ lastOp' = [op |-> "OnClose", vetoed |-> cancel,
                      reports |-> IF cancel THEN <<>> ELSE OnClose_Reports(W)]
        /\ UNCHANGED <<mainQueue, syncVars, pageVars, designer, probe, program>>

\* the user opens a file (ViewerFrame.OpenFile, MacOpenFile)
OpenFile ==
    \E filename \in Files :
        /\ program = "viewer"
        /\ app.frame < MaxFrames
        /\ ~app.destroyed
        /\ SetW(Collect(OpenFile_Frame(W, filename)))
        /\ app' = OpenFile_App(app, filename)
        /\ lastOp' = [op |-> "OpenFile", filename |-> filename,
                      ret |-> OpenFile_Result(filename)]
        /\ cardsSnapshot' = Cards(OpenFile_Frame(W, filename))
        /\ cardsDone' = IF FileKind[filename] = "stack" THEN <<>> ELSE cardsDone
        /\ suspended' = IF FileKind[filename] = "stack" THEN <<>> ELSE suspended
        /\ UNCHANGED <<mainQueue, syncVars, pageVars, designer, probe, program>>

\* ---------------------------------------------------------------- the threads' steps

\* a runner thread calls to_main_sync and waits on KillableThread.returnQueue
ToMainSync ==
    \E k \in WorkerIds, callable \in Callables :
        /\ program = "viewer"
        /\ workers[k].pc = "running"
        /\ workers[k].calls < MaxCalls
        /\ Len(mainQueue) < MaxQueue
        /\ mainQueue' = to_main_sync_CallAfter(mainQueue, callable, k)
        /\ workers' = [workers EXCEPT ![k] = [pc |-> "waiting", callable |-> callable,
                                              own |-> <<>>, got |-> <<>>,
                                              calls |-> @.calls + 1, raised |-> FALSE,
                                              afterKill |->
                                                \E j \in WorkerIds \ {k} :
                                                    workers[j].pc \in {"killed", "exited"}]]
        /\ lastOp' = [op |-> "to_main_sync", thread |-> k]
        /\ UNCHANGED <<stackStack, rootRunner, stackManager, stackModels, runners, app,
                       returnQueue, historyVars, pageVars, designer, probe, program>>

\* the main thread runs to_main_helper for the call at the head of its queue;
\* workers[k].own records the value that call's callable computed; when the
\* callable raises, the exception leaves to_main_helper before returnQueue.put
ToMainHelper ==
    /\ program = "viewer"
    /\ mainQueue # <<>>
    /\ Head(mainQueue).op = "to_main_helper"
    /\ LET func == Head(mainQueue)
           ret == Call(W, func.callable)
       IN  /\ returnQueue' = IF Raises(func.callable) THEN returnQueue
                             ELSE to_main_helper(returnQueue, ret)
           /\ workers' = IF Raises(func.callable)
                         THEN [workers EXCEPT ![func.thread].raised = TRUE]
                         ELSE [workers EXCEPT ![func.thread].own = <<ret>>]
           /\ lastOp' = [op |-> "to_main_helper", thread |-> func.thread]
    /\ mainQueue' = Tail(mainQueue)
    /\ UNCHANGED <<stackStack, rootRunner, stackManager, stackModels, runners, app,
                   historyVars, pageVars, designer, probe, program>>

\* KillableThread.returnQueue.get() returns in the waiting thread k
ReturnQueueGetBy(k) ==
    /\ program = "viewer"
    /\ workers[k].pc = "waiting"
    /\ returnQueue # <<>>
    /\ workers' = [workers EXCEPT ![k].pc = "running", ![k].got = <<Head(returnQueue)>>]
    /\ returnQueue' = Tail(returnQueue)
    /\ lastOp' = [op |-> "returnQueue.get", thread |-> k]
    /\ UNCHANGED <<stackStack, rootRunner, stackManager, stackModels, runners, app,
                   mainQueue, historyVars, pageVars, designer, probe, program>>

\* KillableThread.returnQueue.get() returns in one of the waiting threads
ReturnQueueGet == \E k \in WorkerIds : ReturnQueueGetBy(k)

\* KillableThread.terminate on a thread that waits in returnQueue.get():
\* SystemExit is set to be raised in the thread, which stays blocked until the
\* queue holds a value
Terminate ==
    \E k \in WorkerIds :
        /\ program = "viewer"
        /\ workers[k].pc = "waiting"
        /\ workers' = [workers EXCEPT ![k].pc = "killed"]
        /\ lastOp' = [op |-> "terminate", thread |-> k]
        /\ UNCHANGED <<stackStack, rootRunner, stackManager, stackModels, runners, app,
                       mainQueue, returnQueue, historyVars, pageVars, designer, probe,
                       program>>

\* the terminated thread wakes in returnQueue.get() and SystemExit is raised
\* in it, before it has taken the value or after: the interpreter raises it
\* at the next instruction it checks at
KilledExit ==
    \E k \in WorkerIds, took \in BOOLEAN :
        /\ program = "viewer"
        /\ workers[k].pc = "killed"
        /\ returnQueue # <<>>
        /\ workers' = [workers EXCEPT ![k].pc = "exited"]
        /\ returnQueue' = IF took THEN Tail(returnQueue) ELSE returnQueue
        /\ lastOp' = [op |-> "SystemExit", thread |-> k, took |-> took]
        /\ UNCHANGED <<stackStack, rootRunner, stackManager, stackModels, runners, app,
                       mainQueue, historyVars, pageVars, designer, probe, program>>

\* to_main_sync called on the main thread: the callable is called directly
MainSync ==
    \E callable \in Callables :
        /\ program = "viewer"
        /\ lastOp' = [op |-> "to_main_sync", thread |-> 0, callable |-> callable,
                      ret |-> Call(W, callable)]
        /\ UNCHANGED <<stackStack, rootRunner, stackManager, stackModels, runners, app,
                       mainQueue, syncVars, historyVars, pageVars, designer, probe, program>>

\* ---------------------------------------------------------------- the entity model's steps

\* GetModelFromPath is called on a stack model that was just loaded
ResolvePath ==
    \E stackData \in {ThreeCardData, NumberedCardData}, path \in Paths :
        /\ program = "designer"
        /\ probe.op = "none"
        /\ probe' = [op |-> "GetModelFromPath", data |-> stackData, path |-> path,
                     doc |-> SetData(NewStackModel, stackData),
                     ret |-> GetModelFromPath(SetData(NewStackModel, stackData), path)]
        /\ lastOp' = [op |-> "GetModelFromPath"]
        /\ UNCHANGED <<viewerVars, pageVars, designer, program>>

\* GetData of a stack model is loaded into a new stack model
RoundTrip ==
    \E d \in Documents :
        /\ program = "designer"
        /\ probe.op = "none"
        /\ probe' = [op |-> "SetData", doc |-> d, data |-> GetData(d),
                     ret |-> SetData(NewStackModel, GetData(d))]
        /\ lastOp' = [op |-> "SetData"]
        /\ UNCHANGED <<viewerVars, pageVars, designer, program>>

\* StackModel.InsertCardModel(index, CardModel()) on the stack of the designer
InsertCardAt ==
    \E index \in (0 - MaxCards - 1)..(MaxCards + 1) :
        /\ program = "designer"
        /\ probe.op = "none"
        /\ probe' = [op |-> "InsertCardModel", index |-> index,
                     card |-> Alloc(designer.nodes),
                     before |-> CardModels(designer),
                     ret |-> StackModel_InsertCardModel(
                                 NewCardModel(designer, <<"card_", "9">>),
                                 index, Alloc(designer.nodes))]
        /\ lastOp' = [op |-> "InsertCardModel"]
        /\ UNCHANGED <<viewerVars, pageVars, designer, program>>

\* Stack.add_card(name, atNumber) on the stack of the designer
AddCardAt ==
    \E name \in {<<"card">>, <<"card_", "1">>}, atNumber \in (0 - 1)..(MaxCards + 2) :
        /\ program = "designer"
        /\ probe.op = "none"
        /\ probe' = [op |-> "add_card", atNumber |-> atNumber,
                     card |-> Alloc(designer.nodes),
                     before |-> CardModels(designer),
                     raised |-> Stack_add_card(designer, name, atNumber).raised,
                     ret |-> Stack_add_card(designer, name, atNumber).g]
        /\ lastOp' = [op |-> "add_card"]
        /\ UNCHANGED <<viewerVars, pageVars, designer, program>>

\* the data of a stack file that lists no card
NoCardData == StackData(<<>>)

\* ---- wx_compat.py: points and sizes that tell their model of a change.
\* An object is its class, its two components (x, y or width, height) and the
\* FramePartChanged calls it has made on its model.
PartClasses == {"CDSPoint", "CDSRealPoint", "CDSSize"}

\* the values a component or an operand takes: every quotient of two of them
\* that is taken below is whole
PartValues == {2, 4}

NewPart(cls, a, b) == [cls |-> cls, v |-> <<a, b>>, notified |-> 0]

\* the property setters x, y of CDSPoint and CDSRealPoint, width, height of CDSSize
CDS_setter(o, key, val) ==
    [o EXCEPT !.v[key + 1] = val, !.notified = o.notified + 1]

\* Point.__setitem__ stores into _x or _y
Point___setitem__(o, key, val) == [o EXCEPT !.v[key + 1] = val]

\* Size.__setitem__ assigns self.width or self.height, the property of the
\* object's own class
Size___setitem__(o, key, val) == CDS_setter(o, key, val)

\* CDSPoint, CDSRealPoint, CDSSize.__setitem__: the number check, then the
\* base class's __setitem__
CDS___setitem__(o, key, val) ==
    IF o.cls = "CDSSize" THEN Size___setitem__(o, key, val)
    ELSE Point___setitem__(o, key, val)

\* Point and Size __iadd__, __isub__, __imul__, __itruediv__ with a pair:
\* both components are stored into directly, and self is returned
InPlace(o, way, other) ==
    [o EXCEPT !.v = CASE way = "+=" -> <<o.v[1] + other[1], o.v[2] + other[2]>>
                      [] way = "-=" -> <<o.v[1] - other[1], o.v[2] - other[2]>>
                      [] way = "*=" -> <<o.v[1] * other[1], o.v[2] * other[2]>>
                      [] way = "/=" -> <<o.v[1] \div other[1], o.v[2] \div other[2]>>]

\* a component of a point or size of a model is changed in one of the ways
\* Python has
ChangePart ==
    \E cls \in PartClasses, a \in PartValues, b \in PartValues,
       way \in {"attr", "index", "+=", "-=", "*=", "/="},
       key \in 0..1, val \in PartValues, other \in PartValues \X {2} :
        /\ program = "designer"
        /\ probe.op = "none"
        /\ way \in {"attr", "index"} => other = <<2, 2>>
        /\ way \notin {"attr", "index"} => key = 0 /\ val = 2
        /\ way = "/=" => a % other[1] = 0 /\ b % other[2] = 0
        /\ probe' = [op |-> "ChangePart", way |-> way, before |-> NewPart(cls, a, b),
                     ret |-> CASE way = "attr" -> CDS_setter(NewPart(cls, a, b), key, val)
                               [] way = "index" -> CDS___setitem__(NewPart(cls, a, b), key, val)
                               [] OTHER -> InPlace(NewPart(cls, a, b), way, other)]
        /\ lastOp' = [op |-> "ChangePart"]
        /\ UNCHANGED <<viewerVars, pageVars, designer, program>>

\* StackModel(None).SetData(data) of the data read from a stack file
LoadData ==
    \E stackData \in {NoCardData, OneCardData, ThreeCardData} :
        /\ program = "designer"
        /\ probe.op = "none"
        /\ probe' = [op |-> "LoadData", data |-> stackData,
                     ret |-> SetData(NewStackModel, stackData)]
        /\ lastOp' = [op |-> "LoadData"]
        /\ UNCHANGED <<viewerVars, pageVars, designer, program>>

\* StackModel.RemoveCardModel(card) on the stack of the designer, for a card
\* of the stack, a card of another stack, or a new card
RemoveCardOf ==
    \E kind \in {"child", "other", "new"} :
        \E card \in IF kind = "child" THEN Range(CardModels(designer))
                     ELSE IF kind = "other"
                     THEN {Alloc(WithOtherStack(designer).nodes) - 1}
                     ELSE {Alloc(designer.nodes)} :
            LET g == IF kind = "child" THEN designer
                     ELSE IF kind = "other" THEN WithOtherStack(designer)
                     ELSE NewCardModel(designer, <<"card_", "9">>)
            IN  /\ program = "designer"
                /\ probe.op = "none"
                /\ probe' = [op |-> "RemoveCardModel", card |-> card, kind |-> kind,
                             before |-> CardModels(g),
                             parent |-> g.nodes[card].parent,
                             raised |-> RemoveCardModel_Call(g, card).raised,
                             ret |-> RemoveCardModel_Call(g, card).g]
                /\ lastOp' = [op |-> "RemoveCardModel"]
                /\ UNCHANGED <<viewerVars, pageVars, designer, program>>

\* ---------------------------------------------------------------- the designer's steps

\* edits counts the steps taken; lastGroup is the latest group made, the
\* models put into it as they were, and the card's views at that moment
DesignerStep(g, op) ==
    /\ program = "designer"
    /\ designer.edits < MaxEdits
    /\ designer' = [g EXCEPT !.edits = designer.edits + 1]
    /\ lastOp' = op
    /\ UNCHANGED <<viewerVars, pageVars, probe, program>>

\* names a script or a user gives a new card
NewCardNames == {<<"card">>, <<"card_", "1">>}

\* Stack.add_card(name, atNumber) of a running stack
ScriptAddCard ==
    \E name \in NewCardNames, atNumber \in 0..(Len(CardModels(designer)) + 1) :
        /\ Len(CardModels(designer)) < MaxCards
        /\ FreeNodes(designer) # {}
        /\ DesignerStep(InsertNewCard(designer, name, atNumber - 1),
                        [op |-> "InsertNewCard", name |-> name, atIndex |-> atNumber - 1,
                         card |-> Alloc(designer.nodes), existing |-> CardNamesOf(designer)])

DesignerAddCard ==
    /\ Len(CardModels(designer)) < MaxCards
    /\ FreeNodes(designer) # {}
    /\ DesignerStep(Designer_AddCard(designer),
                    [op |-> "AddCard", card |-> Alloc(designer.nodes),
                     existing |-> CardNamesOf(designer)])

DesignerDuplicateCard ==
    /\ program = "designer"
    /\ Len(CardModels(designer)) < MaxCards
    /\ Cardinality(FreeNodes(designer)) >
          Len(designer.nodes[CardModels(designer)[designer.cardIndex + 1]].childModels)
    /\ DesignerStep(Designer_DuplicateCard(designer),
                    [op |-> "DuplicateCard", card |-> Alloc(designer.nodes),
                     existing |-> CardNamesOf(designer)])

DesignerRemoveCard ==
    /\ program = "designer"
    /\ DesignerStep(Designer_RemoveCard(designer),
                 [op |-> "RemoveCard", card |-> CardModels(designer)[designer.cardIndex + 1],
                  acted |-> Len(CardModels(designer)) > 1,
                  parent |-> StackModel_RemoveCardModel(
                                 designer, CardModels(designer)[designer.cardIndex + 1]
                             ).nodes[CardModels(designer)[designer.cardIndex + 1]].parent])


DesignerGotoCard ==
    \E index \in 0..(Len(CardModels(designer)) - 1) :
        DesignerStep(Designer_LoadCardAtIndex(designer, index, FALSE),
                     [op |-> "LoadCardAtIndex", index |-> index, reload |-> FALSE,
                      acted |-> index # designer.cardIndex,
                      before |-> designer.selectedViews,
                      removed |-> IF index # designer.cardIndex
                                  THEN Range(designer.uiViews) ELSE {}])

\* the card shown is loaded again, as the commands that change it do
DesignerReloadCard ==
    /\ program = "designer"
    /\ DesignerStep(Designer_LoadCardAtIndex(designer, designer.cardIndex, TRUE),
                    [op |-> "LoadCardAtIndex", index |-> designer.cardIndex, reload |-> TRUE,
                     acted |-> TRUE, before |-> designer.selectedViews,
                     removed |-> {}])

\* the designer's user clicks a view, the card, or nothing, with or without shift
DesignerSelect ==
    \E uiView \in GetAllUiViews(designer) \cup {CardOf(designer), NoNode}, extend \in BOOLEAN :
        /\ program = "designer"
        /\ DesignerStep(SelectUiView(designer, uiView, extend),
                        [op |-> "SelectUiView", uiView |-> uiView, extend |-> extend,
                         before |-> designer.selectedViews])

DesignerSelectAll ==
    /\ program = "designer"
    /\ DesignerStep(SelectAll(designer), [op |-> "SelectAll"])

DesignerAddView ==
    \E type \in {"button", "textfield"} :
        /\ program = "designer"
        /\ FreeNodes(designer) # {}
        /\ DesignerStep(ViewTool_Drag(designer, type),
                        [op |-> "AddUiViewInternal", model |-> Alloc(designer.nodes)])

\* a script of the running stack goes to a card, or a card is loaded again
RunningGotoCard ==
    \E index \in 0..(Len(CardModels(designer)) - 1), reload \in BOOLEAN :
        /\ program = "running"
        /\ designer.edits < MaxEdits
        /\ designer' = [Designer_LoadCardAtIndex([designer EXCEPT !.handled = <<>>],
                                                 index, reload)
                           EXCEPT !.edits = designer.edits + 1]
        /\ lastOp' = [op |-> "LoadCardAtIndex", index |-> index, reload |-> reload,
                      from |-> designer.cardIndex, left |-> CardOf(designer)]
        /\ UNCHANGED <<viewerVars, pageVars, probe, program>>

\* LoadCardAtIndex is called with an index that is no card's: past the last
\* card, or negative
LoadCardOutside ==
    \E index \in {-3, -2} \cup {Len(CardModels(designer)), Len(CardModels(designer)) + 1} :
        /\ program \in {"designer", "running"}
        /\ probe.op = "none"
        /\ probe' = [op |-> "LoadCardAtIndex", index |-> index, before |-> designer,
                     raised |-> LoadCardAtIndex_Call([designer EXCEPT !.handled = <<>>],
                                                     index).raised,
                     ret |-> LoadCardAtIndex_Call([designer EXCEPT !.handled = <<>>],
                                                  index).g]
        /\ lastOp' = [op |-> "LoadCardOutside"]
        /\ UNCHANGED <<viewerVars, pageVars, designer, program>>

\* the designer's user presses the mouse with the view tool and releases it,
\* after a drag or where it was pressed
DesignerViewTool ==
    \E type \in {"button", "textfield"}, dragged \in BOOLEAN :
        /\ program = "designer"
        /\ FreeNodes(designer) # {}
        /\ DesignerStep(ViewTool_OnMouseUp(ViewTool_OnMouseDown(designer, type),
                                           Alloc(designer.nodes), dragged),
                        [op |-> "ViewTool", type |-> type, dragged |-> dragged,
                         model |-> Alloc(designer.nodes)])

\* the designer's user sends the selected views back or brings them forward
DesignerReorder ==
    \E direction \in {"end", "fwd", "back", "front"} :
        /\ program = "designer"
        /\ DesignerStep(ReorderSelectedViews(designer, direction),
                        [op |-> "ReorderSelectedViews", direction |-> direction])

DesignerUndo ==
    /\ program = "designer"
    /\ DesignerStep(Designer_Undo(designer), [op |-> "Undo"])

DesignerRedo ==
    /\ program = "designer"
    /\ DesignerStep(Designer_Redo(designer), [op |-> "Redo"])

\* the designer starts or stops running the stack in its own stack manager
DesignerSetEditing ==
    \E editing \in BOOLEAN :
        /\ program = "designer"
        /\ DesignerStep(SetEditing(designer, editing),
                        [op |-> "SetEditing", editing |-> editing])

\* a view of the card is deleted: RemoveUiViewsCommand.Do, or a script of the
\* running stack
DesignerRemoveView ==
    \E m \in Range(designer.uiViews) :
        /\ program = "designer"
        /\ DesignerStep(RemoveUiViewByModel(designer, m),
                        [op |-> "RemoveUiViewByModel", removed |-> {m}])

DesignerCut ==
    /\ program = "designer"
    /\ DesignerStep(Designer_Cut(designer),
                    [op |-> "Cut", models |-> designer.selectedViews,
                     parents |-> {RemoveEach(designer, designer.selectedViews).nodes[m].parent :
                                     m \in Range(designer.selectedViews) \cap
                                           Range(designer.uiViews)}])

DesignerGroup ==
    /\ program = "designer"
    /\ FreeNodes(designer) # {}
    /\ DesignerStep([GroupSelectedViews(designer) EXCEPT
                        !.lastGroup =
                            IF Len(SelectedModels(designer)) >= 2
                            THEN [group |-> Alloc(designer.nodes),
                                  models |-> SelectedModels(designer),
                                  trees |-> [i \in 1..Len(SelectedModels(designer)) |->
                                                Tree(designer, SelectedModels(designer)[i])],
                                  uiViews |-> designer.uiViews]
                            ELSE @],
                    [op |-> "GroupSelectedViews", models |-> SelectedModels(designer),
                     group |-> Alloc(designer.nodes)])

DesignerUngroup ==
    /\ program = "designer"
    /\ DesignerStep(UngroupSelectedViews(designer),
                    [op |-> "UngroupSelectedViews", models |-> SelectedModels(designer),
                     groups |-> SelectSeq(SelectedModels(designer),
                                          LAMBDA m : designer.nodes[m].type = "group")])

\* ---------------------------------------------------------------- specifications

\* the page editor with a page loaded, or the stack viewer after RunViewer()
\* has made its first frame (NewFile, or OpenFile of the file named)
Init ==
    /\ program \in {"page", "viewer", "designer", "running"}
    /\ IF program = "page"
       THEN PageInit
       ELSE /\ page = NewPageWindow
            /\ pageSnapshot = PageGetData(NewPageWindow)
            /\ pageDone = <<>>
    /\ ViewerInit
    /\ program # "viewer" => stackManager.filename = NoFile
    /\ DesignerInit
    /\ probe = [op |-> "none"]
    /\ lastOp = [op |-> "init"]

EditNext ==
    \/ OnMouseUp \/ AddUiView \/ PageUndo \/ PageRedo
    \/ AddCard \/ RemoveCard \/ Undo \/ Redo \/ GotoCard

ViewerNext == GosubStack \/ RunMain \/ TakeReturn \/ GotoCard

HistoryNext == GosubStack \/ RunMain \/ AddCard \/ Undo

OpenNext == OpenFile \/ GosubStack \/ RunMain

SyncNext == ToMainSync \/ ToMainHelper \/ ReturnQueueGet \/ MainSync \/ GotoCard

\* the first change made to a stack: the stack has unsaved changes after it
AddFirstCard == stackManager.commands = <<>> /\ AddCard

CloseNext == GosubStack \/ RunMain \/ AddFirstCard \/ OnClose

TerminateNext ==
    \/ ToMainSync \/ ToMainHelper \/ ReturnQueueGet \/ Terminate \/ KilledExit

EntityNext ==
    \/ ResolvePath \/ RoundTrip \/ InsertCardAt \/ AddCardAt \/ RemoveCardOf \/ LoadData
    \/ ChangePart

PageNamesNext == AddUiView \/ PageRemoveView

CardsNext ==
    \/ ScriptAddCard \/ DesignerAddCard \/ DesignerDuplicateCard
    \/ DesignerRemoveCard \/ DesignerGotoCard

ViewsNext ==
    \/ DesignerSelect \/ DesignerSelectAll \/ DesignerAddView \/ DesignerCut
    \/ DesignerGroup \/ DesignerUngroup \/ DesignerGotoCard

DesignerNext == CardsNext \/ ViewsNext

ReorderNext ==
    \/ DesignerSelect \/ DesignerSelectAll \/ DesignerReorder
    \/ DesignerUndo \/ DesignerRedo

ToolNext == DesignerViewTool \/ DesignerUndo \/ DesignerRedo \/ DesignerSelect

RunningNext == RunningGotoCard \/ LoadCardOutside

EditingNext ==
    \/ DesignerSetEditing \/ DesignerSelect \/ DesignerSelectAll
    \/ DesignerRemoveView \/ DesignerGotoCard \/ DesignerReloadCard

ClipboardNext == Paste \/ AddCard \/ RemoveCard \/ Undo \/ Redo \/ GotoCard

\* the editors' command histories: the page editor's, the stack manager's
SpecEdit == Init /\ [][EditNext]_vars

\* the viewer: stack calls and returns, card navigation
SpecViewer == Init /\ [][ViewerNext]_vars

\* the viewer: stack calls and returns with commands in the history
SpecHistory == Init /\ [][HistoryNext]_vars

\* the stack manager's command history with cards pasted from the clipboard
SpecClipboard == Init /\ [][ClipboardNext]_vars

\* views added to and removed from a page
SpecPageNames == Init /\ [][PageNamesNext]_vars

\* cards added to and removed from a stack
SpecCards == Init /\ [][CardsNext]_vars

\* views of a card selected, added, cut, grouped and ungrouped
SpecViews == Init /\ [][ViewsNext]_vars

\* the designer's stack manager, cards and views
SpecDesigner == Init /\ [][DesignerNext]_vars

\* views of a card selected and reordered, with undo and redo
SpecReorder == Init /\ [][ReorderNext]_vars

\* views made with the view tool, with undo and redo
SpecTool == Init /\ [][ToolNext]_vars

\* the viewer's stack manager going from card to card of a running stack
SpecRunning == Init /\ [][RunningNext]_vars

\* the designer's stack manager entering and leaving editing mode
SpecEditing == Init /\ [][EditingNext]_vars

\* the entity model's methods called on loaded documents
SpecEntity == Init /\ [][EntityNext]_vars

\* the viewer with files being opened
SpecOpen == Init /\ [][OpenNext]_vars

\* runner threads making synchronous calls onto the main thread
SpecSync == Init /\ [][SyncNext]_vars

\* the viewer: stack calls and returns, and the window closed
SpecClose == Init /\ [][CloseNext]_vars

\* runner threads terminated while they wait for a synchronous call
SpecTerminate == Init /\ [][TerminateNext]_vars

\* the same, with the main thread running every function handed to it and
\* every waiting thread woken while the return queue holds a value
SpecSyncFair ==
    /\ Init /\ [][SyncNext]_vars
    /\ WF_vars(ToMainHelper)
    /\ \A k \in WorkerIds : WF_vars(ReturnQueueGetBy(k))

\* ---------------------------------------------------------------- properties

\* C1: once every recorded command of a history has been undone, the document
\* is the snapshot taken before the first submission: the page has the same
\* shapes and the same views in the same order, the stack the same cards in
\* the same order
C1_UndoRestores ==
    /\ page.commands = <<>> => PageGetData(page) = pageSnapshot
    /\ stackManager.commands = <<>> => Cards(W) = cardsSnapshot

C1_Witness ==
    /\ page.commands = <<>>
    /\ Len(page.redoCommands) >= 2
    /\ lastOp.op = "PageUndo"

C3_ResumesOnRecordedCard ==
    [][lastOp'.op = "RunMain" =>
        /\ lastOp'.did = "push" =>
             stackStack'[Len(stackStack)].cardIndex = stackManager.cardIndex
        /\ lastOp'.did = "pop" =>
             LET beneath == stackStack[Len(stackStack) - 1]
             IN  /\ stackManager'.cardIndex = beneath.cardIndex
                 /\ stackManager'.stackModel = beneath.stackModel
                 /\ stackManager'.filename = beneath.filename
                 /\ Last(stackStack') = beneath]_vars

C3_Witness ==
    /\ lastOp.op = "RunMain"
    /\ lastOp.did = "pop"
    /\ Len(stackStack) = 1
    /\ stackManager.cardIndex = 2

\* C4 as stated: when a sub-stack returns to frame F, the history holds the
\* commands F had recorded before its call
C4_HistoryPreserved ==
    [][lastOp'.op = "RunMain" /\ lastOp'.did = "pop" =>
        stackManager'.commands = Last(suspended)]_vars

\* C4 amended: the frames share the stack manager's one history, which every
\* push and every pop empties: after a call and after a return nothing is
\* undoable or redoable
C4_HistoryCleared ==
    lastOp.op = "RunMain" /\ lastOp.did # "nothing" =>
        stackManager.commands = <<>> /\ stackManager.redoCommands = <<>>

C4_Witness ==
    /\ lastOp.op = "RunMain"
    /\ lastOp.did = "pop"
    /\ lastOp.lost # <<>>
    /\ stackManager.commands = <<>>

\* C5: GosubStack with a file that does not exist returns False, queues
\* nothing and leaves stackStack, the stack manager, the models and the
\* runners as they were
C5_MissingFileFails ==
    [][(/\ lastOp'.op = "GosubStack"
        /\ lastOp'.filename \in Files
        /\ FileKind[lastOp'.filename] = "missing") =>
            /\ lastOp'.ret = "False"
            /\ UNCHANGED <<stackStack, rootRunner, stackManager, stackModels, runners,
                           mainQueue>>]_vars

C5_Witness ==
    /\ lastOp.op = "GosubStack"
    /\ lastOp.filename = "missing.cds"
    /\ lastOp.ret = "False"
    /\ Len(stackStack) = 2
    /\ stackManager.cardIndex = 2
    /\ mainQueue # <<>>

\* C6 as stated: GosubStack with a file that exists and is no document returns
\* False and its push, if one was queued, pushes no frame
C6_UnparsableFails ==
    /\ (/\ lastOp.op = "GosubStack"
        /\ lastOp.filename \in Files
        /\ FileKind[lastOp.filename] \in {"badjson", "empty", "unloadable"})
            => lastOp.ret = "False"
    /\ (/\ lastOp.op = "RunMain"
        /\ lastOp.func.op = "push"
        /\ FileKind[lastOp.func.filename] \in {"badjson", "empty", "unloadable"})
            => lastOp.did = "nothing"

\* C7: GosubStack without a filename on a stack of one frame returns False,
\* queues nothing and changes nothing; PopStack on a stack of one frame
\* changes nothing
C7_ReturnAtRootFails ==
    [][/\ (/\ lastOp'.op = "GosubStack"
           /\ lastOp'.filename = NoFile
           /\ Len(stackStack) = 1) =>
               /\ lastOp'.ret = "False"
               /\ UNCHANGED <<stackStack, rootRunner, stackManager, stackModels,
                              runners, mainQueue>>
       /\ (/\ lastOp'.op = "RunMain"
           /\ lastOp'.func.op = "pop"
           /\ Len(stackStack) = 1) =>
               UNCHANGED <<stackStack, rootRunner, stackManager, stackModels,
                           runners>>]_vars

C7_Witness ==
    /\ lastOp.op = "GosubStack"
    /\ lastOp.filename = NoFile
    /\ lastOp.ret = "False"
    /\ Len(stackStack) = 1
    /\ stackManager.cardIndex = 2

\* C8 as stated: GosubStack returns True or False, and a push it returned True
\* for pushes a frame when the main thread runs it
C8_TrueIffSuccessful ==
    /\ lastOp.op = "GosubStack" => lastOp.ret \in {"True", "False"}
    /\ (lastOp.op = "RunMain" /\ lastOp.func.op = "push" /\ ~lastOp.gone)
            => lastOp.did = "push"

\* C9 as stated: the value to_main_sync returns to a thread is the value that
\* thread's own callable computed on the main thread
C9_OwnValue ==
    \A k \in WorkerIds : workers[k].got # <<>> => workers[k].got = workers[k].own

\* C10 as stated: after an OpenFile that failed, the frame that was installed
\* is neither set down nor destroyed
C10_FailedOpenKeepsDocument ==
    lastOp.op = "OpenFile" /\ lastOp.ret = "raise" =>
        ~app.setDown /\ ~app.destroyed

\* C11: a Redo that re-applies a command leaves the document as the Submit of
\* that command left it: the page with the same shapes and the same views with
\* the same ids in the same order, the stack with the same cards in the same
\* order
C11_RedoReproduces ==
    /\ (lastOp.op = "PageRedo" /\ lastOp.acted) =>
            PageGetData(page) = pageDone[Len(page.commands)]
    /\ (lastOp.op = "Redo" /\ lastOp.acted) =>
            Cards(W) = cardsDone[Len(stackManager.commands)]

C11_Witness ==
    /\ lastOp.op = "PageRedo"
    /\ lastOp.acted
    /\ Len(page.commands) = 2
    /\ page.commands[1].cmd = "AddUIView"
    /\ page.commands[2].cmd = "AddLine"
    /\ page.redoCommands = <<>>

\* C12: a Submit leaves nothing redoable and adds its command to those done;
\* Undo and Redo only move between the commands held, so a command a Submit
\* discarded is never applied again
C12_SubmitDiscardsRedo ==
    [][/\ (lastOp'.op \in {"OnMouseUp", "AddUiViewOfType"}
            /\ page'.commands # page.commands) =>
                /\ page'.redoCommands = <<>>
                /\ Front(page'.commands) = page.commands
       /\ lastOp'.op \in {"PageUndo", "PageRedo"} =>
                Timeline(page'.commands, page'.redoCommands)
                    = Timeline(page.commands, page.redoCommands)
       /\ (lastOp'.op \in {"AddCard", "RemoveCard"}
            /\ stackManager'.commands # stackManager.commands) =>
                /\ stackManager'.redoCommands = <<>>
                /\ Front(stackManager'.commands) = stackManager.commands
       /\ lastOp'.op \in {"Undo", "Redo"} =>
                Timeline(stackManager'.commands, stackManager'.redoCommands)
                    = Timeline(stackManager.commands, stackManager.redoCommands)]_vars

C12_Witness ==
    /\ lastOp.op = "AddUiViewOfType"
    /\ lastOp.viewType = "button"
    /\ lastOp.discarded = 2
    /\ Len(page.commands) = 1
    /\ page.redoCommands = <<>>

\* C13 as stated: Undo with nothing to undo and Redo with nothing to redo
\* leave the document, the selection, the history and the dirty flag as they
\* were
C13_NoOpAtEnds ==
    [][/\ ((lastOp'.op = "Undo" /\ stackManager.commands = <<>>)
            \/ (lastOp'.op = "Redo" /\ stackManager.redoCommands = <<>>)) =>
                UNCHANGED <<stackManager, stackModels>>
       /\ ((lastOp'.op = "PageUndo" /\ page.commands = <<>>)
            \/ (lastOp'.op = "PageRedo" /\ page.redoCommands = <<>>)) =>
                UNCHANGED page]_vars

\* the card a found node is on, as an index into the stack's cards, or NoNode
CardIndexOf(d, m) ==
    LET cards == d.nodes[d.root].childModels
        on == {i \in 1..Len(cards) : cards[i] = m \/ cards[i] = d.nodes[m].parent}
    IN  IF on = {} THEN NoNode ELSE (CHOOSE i \in on : TRUE) - 1

\* C14 as stated: on a freshly loaded document of three cards,
\* GetModelFromPath("1.button1") returns the node named button1 inside the
\* card at index 1, and GetModelFromPath("5.x") returns None.
C14_ResolvesByIndex ==
    (probe.op = "GetModelFromPath" /\ probe.data = ThreeCardData) =>
        /\ probe.path = <<"1", ".", "button", "1">> =>
              /\ probe.ret.found
              /\ probe.doc.nodes[probe.ret.node].properties.name = <<"button", "1">>
              /\ CardIndexOf(probe.doc, probe.ret.node) = 1
        /\ probe.path = <<"5", ".", "x">> => ~probe.ret.found

\* C14 amended: GetModelFromPath resolves every part of the path by name.  A
\* node it returns lies as deep as the path has parts and, read from the
\* stack's cards down, carries the names the path lists; on the three-card
\* document "card_2.button1" returns button1 on the card at index 1, while
\* "1.button1" and "5.x" return None, no card being named 1 or 5.
C14_ResolvesByName ==
    probe.op = "GetModelFromPath" =>
        LET d == probe.doc
            parts == Split(probe.path)
            ret == probe.ret
        IN  /\ ret.found =>
                  \/ Len(parts) = 1 /\ d.nodes[ret.node].parent = d.root
                                      /\ d.nodes[ret.node].properties.name = parts[1]
                  \/ Len(parts) = 2 /\ d.nodes[ret.node].properties.name = parts[2]
                                      /\ d.nodes[ret.node].parent # NoNode
                                      /\ d.nodes[d.nodes[ret.node].parent].properties.name = parts[1]
                                      /\ d.nodes[d.nodes[ret.node].parent].parent = d.root
            /\ probe.data = ThreeCardData =>
                  /\ probe.path = <<"card_", "2", ".", "button", "1">> =>
                        /\ ret.found
                        /\ d.nodes[ret.node].properties.name = <<"button", "1">>
                        /\ CardIndexOf(d, ret.node) = 1
                  /\ probe.path = <<"1", ".", "button", "1">> => ~ret.found
                  /\ probe.path = <<"5", ".", "x">> => ~ret.found

\* a path of two names was resolved to a card's child
C14_Witness ==
    /\ probe.op = "GetModelFromPath"
    /\ probe.data = ThreeCardData
    /\ probe.path = <<"card_", "2", ".", "button", "1">>
    /\ probe.ret.found
    /\ probe.doc.nodes[probe.ret.node].type = "button"

C16_NamesDeduplicated ==
    /\ lastOp.op \in {"InsertNewCard", "AddCard", "DuplicateCard"} =>
          NameOf(designer, lastOp.card) \notin lastOp.existing
    /\ (lastOp.op = "InsertNewCard" /\ lastOp.name = <<"card">>
          /\ lastOp.existing = {<<"card">>, <<"card", "1">>}) =>
          NameOf(designer, lastOp.card) = <<"card", "2">>
    /\ \A i, j \in 1..Len(CardModels(designer)) :
          NameOf(designer, CardModels(designer)[i]) = NameOf(designer, CardModels(designer)[j])
              => i = j

\* a stack with the cards card and card1 was given a new card named "card",
\* which became card2
C16_Witness ==
    /\ lastOp.op = "InsertNewCard"
    /\ lastOp.name = <<"card">>
    /\ lastOp.existing = {<<"card">>, <<"card", "1">>}
    /\ NameOf(designer, lastOp.card) = <<"card", "2">>
    /\ Len(CardModels(designer)) = 3

\* C17: names are unique among the views of a page: the name
\* PageWindow.GetNextAvailableName gives a new view is not the name of a view
\* the page already has, so no two views of the page share a name.
C17_NamesUnique ==
    \A i, j \in 1..Len(page.uiViews) :
        page.uiViews[i].name = page.uiViews[j].name => i = j

\* the model objects in use
LiveNodes(g) == {m \in NodeIds : g.nodes[m].type # "free"}

\* how often m is among the child models of c
Holds(g, c, m) ==
    Cardinality({i \in 1..Len(g.nodes[c].childModels) : g.nodes[c].childModels[i] = m})

\* C18: parent and child links agree: a model held by a container is held
\* once, by that container only, and has it as parent; a model with a parent
\* is among that parent's child models; the stack has no parent; a card or
\* view taken out of its container has no parent.  This holds after SetData,
\* AppendCardModel, InsertCardModel, InsertNewCard, RemoveCardModel,
\* AddUiViewInternal, RemoveUiViewByModel, grouping and ungrouping.
C18_LinksConsistent ==
    /\ designer.nodes[designer.root].parent = NoNode
    /\ \A m \in LiveNodes(designer) :
          /\ \A c \in LiveNodes(designer) :
                Holds(designer, c, m) > 0 =>
                    Holds(designer, c, m) = 1 /\ designer.nodes[m].parent = c
          /\ designer.nodes[m].parent # NoNode =>
                Holds(designer, designer.nodes[m].parent, m) = 1
    /\ (lastOp.op = "RemoveCard" /\ lastOp.acted) => lastOp.parent = NoNode
    /\ lastOp.op = "Cut" => lastOp.parents \subseteq {NoNode}

\* three views were grouped and ungrouped again: they are the card's children
\* and the card is their parent
C18_Witness ==
    /\ lastOp.op = "UngroupSelectedViews"
    /\ Len(lastOp.models) = 1
    /\ Len(designer.uiViews) = 3
    /\ \A m \in Range(designer.uiViews) : designer.nodes[m].parent = CardOf(designer)
    /\ designer.nodes[CardOf(designer)].childModels = designer.uiViews

\* C19: when the group made of the selected views of a card is ungrouped, the
\* views it was made of are views of the card again: the same models with the
\* properties they had, the card as their parent, in the order they had among
\* themselves, and the group is no view of the card any more.
C19_UngroupRestores ==
    (lastOp.op = "UngroupSelectedViews" /\ lastOp.groups = <<designer.lastGroup.group>>) =>
        LET was == designer.lastGroup
            n == Len(was.models)
            now == designer.uiViews
        IN  /\ Len(now) >= n
            /\ SelectSeq(now, LAMBDA m : m \in Range(was.models)) = was.models
            /\ \A i \in 1..n :
                  /\ Tree(designer, was.models[i]) = was.trees[i]
                  /\ designer.nodes[was.models[i]].parent = CardOf(designer)
            /\ SelectSeq(designer.nodes[CardOf(designer)].childModels,
                          LAMBDA m : m \in Range(was.models)) = was.models
            /\ was.group \notin Range(now)

\* the three views of a card were selected, grouped, and the group ungrouped
C19_Witness ==
    /\ lastOp.op = "UngroupSelectedViews"
    /\ lastOp.groups = <<designer.lastGroup.group>>
    /\ Len(designer.lastGroup.models) = 3
    /\ Len(designer.uiViews) = 3
    /\ designer.selectedViews = <<>>

\* the new item and the selection are of different scopes: one of them is
\* inside a group, or one is the card and the other a view
Incompatible(g, selected, uiView) ==
    \/ InGroup(g, uiView)
    \/ Len(selected) > 0 /\ InGroup(g, selected[1])
    \/ Len(selected) > 0 /\
          (g.nodes[uiView].type = "card") # (g.nodes[selected[1]].type = "card")

\* C20: the selection never holds a view inside a group together with a view
\* of the card, never the card together with a view, never a view twice; a
\* selection extended by an item of another scope is that item alone.
C20_SelectionScopes ==
    LET selected == designer.selectedViews
    IN  /\ \A i, j \in 1..Len(selected) :
              /\ selected[i] = selected[j] => i = j
              /\ InGroup(designer, selected[i]) => selected[j] \notin Range(designer.uiViews)
              /\ designer.nodes[selected[i]].type = "card" => i = j
        /\ (lastOp.op = "SelectUiView" /\ lastOp.extend /\ lastOp.uiView # NoNode
              /\ Incompatible(designer, lastOp.before, lastOp.uiView)) =>
                selected = <<lastOp.uiView>>

\* the group of a card was selected and a view inside it was clicked with
\* shift: that view alone is selected
C20_Witness ==
    /\ lastOp.op = "SelectUiView"
    /\ lastOp.extend
    /\ Len(lastOp.before) = 1
    /\ lastOp.before[1] \in Range(designer.uiViews)
    /\ lastOp.uiView # NoNode
    /\ InGroup(designer, lastOp.uiView)
    /\ designer.selectedViews = <<lastOp.uiView>>

\* C21: after a view is removed from the card, by RemoveUiViewByModel or by
\* ClearAllViews when another card is loaded, the selection holds no view that
\* was removed, whether the stack manager is editing or not.
C21_RemovedNotSelected ==
    lastOp.op \in {"RemoveUiViewByModel", "LoadCardAtIndex"} =>
        Range(designer.selectedViews) \cap lastOp.removed = {}

\* C22 as stated: after LoadCardAtIndex has changed or reloaded the card, the
\* selection is the card alone, editing or not.
C22_SelectionIsCard ==
    (lastOp.op = "LoadCardAtIndex" /\ lastOp.acted) =>
        designer.selectedViews = <<CardOf(designer)>>

\* C22: after LoadCardAtIndex has changed or reloaded the card, the selection
\* of an editing stack manager is the card alone, whatever was selected, and
\* the selection of one that is not editing is what it was.
C22_SelectionReset ==
    (lastOp.op = "LoadCardAtIndex" /\ lastOp.acted) =>
        IF designer.isEditing
        THEN designer.selectedViews = <<CardOf(designer)>>
        ELSE designer.selectedViews = lastOp.before

\* an editing stack manager with two views selected went to another card
C22_Witness ==
    /\ lastOp.op = "LoadCardAtIndex"
    /\ lastOp.acted
    /\ ~lastOp.reload
    /\ designer.isEditing
    /\ Len(lastOp.before) = 2
    /\ designer.selectedViews = <<CardOf(designer)>>

C25_FailedRemoveChangesNothing ==
    probe.op = "RemoveCardModel" =>
        IF probe.card \in Range(probe.before)
        THEN /\ ~probe.raised
             /\ CardModels(probe.ret) = SelectSeq(probe.before, LAMBDA c : c # probe.card)
             /\ probe.ret.nodes[probe.card].parent = NoNode
        ELSE /\ probe.raised
             /\ CardModels(probe.ret) = probe.before
             /\ probe.ret.nodes[probe.card].parent = probe.parent

\* C26: a stack has at least one card, the designer's stack in every state
\* and a stack model that SetData has loaded a document into.
C26_AtLeastOneCard ==
    /\ Len(CardModels(designer)) >= 1
    /\ probe.op = "LoadData" => Len(CardModels(probe.ret)) >= 1

\* C27: a push onto a stack that is not empty stops the timers of the runner
\* of the frame it suspends, which is the stack manager's runner at that
\* moment, records the card index that frame is on, and leaves the timers of
\* the new frame's runner, another runner, running.
C27_SuspendedFrameStopped ==
    [][(lastOp'.op = "RunMain" /\ lastOp'.did = "push" /\ Len(stackStack) > 0) =>
        LET n == Len(stackStack)
            old == stackStack[n].runner
            new == stackStack'[n + 1].runner
        IN  /\ old = stackManager.runner
            /\ stackStack'[n].runner = old
            /\ runners'[old].timersStopped
            /\ stackStack'[n].cardIndex = stackManager.cardIndex
            /\ new # old
            /\ stackManager'.runner = new
            /\ ~runners'[new].timersStopped]_vars

\* a stack was pushed from the third card of the root stack
C27_Witness ==
    /\ lastOp.op = "RunMain"
    /\ lastOp.did = "push"
    /\ Len(stackStack) = 2
    /\ stackStack[1].cardIndex = 2
    /\ runners[stackStack[1].runner].timersStopped
    /\ ~runners[stackStack[2].runner].timersStopped


\* C28: ReorderSelectedViews submits at most one command for the whole
\* selection, and one Undo of it puts every moved view back; when a selected
\* item is the card or a child of a group, when nothing is selected, or when
\* a target index is outside [0, number of children), it submits nothing and
\* the child order and the history stay as they were
C28_ReorderAtomic ==
    [][lastOp'.op = "ReorderSelectedViews" =>
         LET was == designer
             now == designer'
             kids == was.nodes[CardOf(was)].childModels
             kidsNow == now.nodes[CardOf(now)].childModels
             sel == Range(was.selectedViews)
             refused == \E v \in sel : v = CardOf(was) \/ InGroup(was, v)
             first == IF refused \/ sel = {} THEN 0
                      ELSE Sorted({IndexOf(kids, v) : v \in sel})[1]
             outside == \E i \in 0..(Cardinality(sel) - 1) :
                           NewIndex(lastOp'.direction, first, i, Len(kids), Cardinality(sel))
                               \notin 0..(Len(kids) - 1)
         IN  IF refused \/ sel = {} \/ outside
             THEN /\ kidsNow = kids
                  /\ now.commands = was.commands
                  /\ now.redoCommands = was.redoCommands
             ELSE /\ Len(now.commands) = Len(was.commands) + 1
                  /\ Front(now.commands) = was.commands
                  /\ Len(Last(now.commands).oldIndexes) = Cardinality(sel)
                  /\ Designer_Undo(now).nodes[CardOf(now)].childModels = kids
                  /\ Designer_Undo(now).commands = was.commands]_vars

\* two selected views were moved by one recorded command
C28_Witness ==
    /\ program = "designer"
    /\ lastOp.op = "ReorderSelectedViews"
    /\ Len(designer.selectedViews) = 2
    /\ Len(designer.commands) = 1
    /\ Len(designer.commands[1].oldIndexes) = 2
    /\ designer.commands[1].oldIndexes # designer.commands[1].newIndexes


\* C29: a mutation submitted without being recorded happens once and leaves
\* the undo/redo history as it was: a Paste with canUndo False adds its card
\* once, the recorded commands are the same, and the commands that could be
\* redone before can be redone after
C29_UnrecordedKeepsHistory ==
    [][lastOp'.op = "Paste" /\ ~lastOp'.canUndo =>
         /\ Len(Cards(W)') = Len(Cards(W)) + 1
         /\ stackManager'.commands = stackManager.commands
         /\ stackManager'.redoCommands = stackManager.redoCommands]_vars


\* C30: whenever a component of a CDSPoint, CDSRealPoint or CDSSize is given
\* another value, by attribute assignment, by index assignment or by an
\* in-place operator, the object has called FramePartChanged on its model
C30_ChangeNotifies ==
    probe.op = "ChangePart" /\ probe.ret.v # probe.before.v => probe.ret.notified >= 1


\* C31: a thread that makes its call of to_main_sync after every other thread
\* that ever called was terminated in its call is returned the value its own
\* callable computed, not the result of a terminated thread's call
C31_TerminatedResultDropped ==
    \A k \in WorkerIds :
        (/\ workers[k].pc = "running"
         /\ workers[k].got # <<>>
         /\ workers[k].afterKill
         /\ \A j \in WorkerIds \ {k} :
               workers[j].calls = 0 \/ workers[j].pc \in {"killed", "exited"})
            => workers[k].got = workers[k].own


\* C32: every Return request that GosubStack reported as successful pops
\* exactly one frame when the main thread runs it, and the frame it pops is
\* the frame of the runner whose script made the request
C32_ReturnPopsOwnFrame ==
    [][lastOp'.op = "RunMain" /\ lastOp'.func.op = "pop" /\ ~lastOp'.gone =>
         /\ Len(stackStack') = Len(stackStack) - 1
         /\ stackManager.runner = lastOp'.func.by]_vars


\* C35: when a call has pushed a frame, the new frame's runner was given the
\* setup value before it was asked to run the stack's setup and before any
\* card handler was dispatched, and every card handler dispatched during the
\* call went to the new frame's runner
C35_SetupBeforeHandlers ==
    (lastOp.op = "RunMain" /\ lastOp.did = "push") =>
        LET log == lastOp.log
            new == Last(stackStack).runner
        IN  \E i \in 1..Len(log) :
               /\ log[i].ev = "stackSetupValue"
               /\ log[i].runner = new
               /\ runners[new].stackSetupValue = lastOp.func.ioValue
               /\ \A j \in 1..Len(log) :
                     log[j].ev # "stackSetupValue" => log[j].runner = new /\ j > i


\* C33: stackStack is never empty and its bottom frame stays the frame of the
\* root document, with the runner, stack model and file it was pushed with,
\* whatever is called and returned; and a close that is neither vetoed nor
\* skipped leaves exactly that frame when the stack manager is set down
C33_RootFrameStays ==
    [][/\ Len(stackStack') >= 1
       /\ stackStack'[1].runner = stackStack[1].runner
       /\ stackStack'[1].stackModel = stackStack[1].stackModel
       /\ stackStack'[1].filename = stackStack[1].filename
       /\ (app'.setDown /\ ~app.setDown) => Len(stackStack') = 1]_vars

\* the window was closed with two frames nested on the root's
C33_Witness ==
    /\ lastOp.op = "OnClose"
    /\ app.setDown
    /\ Len(lastOp.reports) = 2
    /\ Len(stackStack) = 1

\* what C34 asks of a pop: the stack manager's runner and stack model are the
\* top frame's, the root runner is the bottom frame's, and the one stack model
\* set down is the popped frame's
PopLeavesTopCurrent(report) ==
    /\ report.runner = Last(report.stackStack).runner
    /\ report.stackModel = Last(report.stackStack).stackModel
    /\ report.rootRunner = report.stackStack[1].runner
    /\ report.setDown = {report.popped}
    /\ report.popped # report.stackModel

\* C34: after every push and every pop, the pops of a close included, the
\* stack manager's runner and stack model are those of the last frame of
\* stackStack, rootRunner is the bottom frame's runner, and the stack model a
\* pop set down is the popped frame's, not the resumed frame's
C34_TopFrameCurrent ==
    /\ stackManager.runner = Last(stackStack).runner
    /\ stackManager.stackModel = Last(stackStack).stackModel
    /\ rootRunner = stackStack[1].runner
    /\ ~stackModels[stackManager.stackModel].didSetDown
    /\ lastOp.op = "RunMain" =>
          \A i \in 1..Len(lastOp.report) : PopLeavesTopCurrent(lastOp.report[i])
    /\ lastOp.op = "OnClose" =>
          \A i \in 1..Len(lastOp.reports) : PopLeavesTopCurrent(lastOp.reports[i])

\* a close popped two frames, the second of them after the first
C34_Witness ==
    /\ lastOp.op = "OnClose"
    /\ Len(lastOp.reports) = 2
    /\ Len(lastOp.reports[1].stackStack) = 2
    /\ lastOp.reports[1].setDown # lastOp.reports[2].setDown

C36_ActiveCardKept ==
    [][program = "designer" =>
         /\ 0 <= designer'.cardIndex
         /\ designer'.cardIndex < Len(CardModels(designer'))
         /\ designer'.uiViews = designer'.nodes[CardOf(designer')].childModels
         /\ lastOp'.op = "InsertNewCard" =>
              /\ CardOf(designer') = CardOf(designer)
              /\ Len(CardModels(designer')) = Len(CardModels(designer)) + 1
              /\ IF lastOp'.atIndex = -1
                 THEN /\ Last(CardModels(designer')) = lastOp'.card
                      /\ designer'.cardIndex = designer.cardIndex
                 ELSE /\ CardModels(designer')[lastOp'.atIndex + 1] = lastOp'.card
                      /\ designer'.cardIndex =
                            IF lastOp'.atIndex <= designer.cardIndex
                            THEN designer.cardIndex + 1 ELSE designer.cardIndex]_vars

\* a card was inserted before the active card, which is the third card now
C36_Witness ==
    /\ program = "designer"
    /\ lastOp.op = "InsertNewCard"
    /\ lastOp.atIndex = 0
    /\ designer.cardIndex = 2
    /\ Len(designer.uiViews) > 0


\* C37: LoadCardAtIndex called with an index that is no card's raises, and
\* cardIndex, the views and the selection are as they were, and no handler
\* was run
C37_BadIndexLeavesState ==
    probe.op = "LoadCardAtIndex" =>
        /\ probe.raised
        /\ probe.ret.cardIndex = probe.before.cardIndex
        /\ probe.ret.uiViews = probe.before.uiViews
        /\ probe.ret.selectedViews = probe.before.selectedViews
        /\ probe.ret.handled = <<>>


\* C38: a gesture of the view tool that leaves a view on the card recorded
\* one command for it, and undoing that command takes the view off the card;
\* a gesture without a drag leaves no view on the card and records nothing
C38_GestureRecorded ==
    [][lastOp'.op = "ViewTool" =>
         LET m == lastOp'.model
             onCard == m \in Range(designer'.nodes[CardOf(designer')].childModels)
                          \/ m \in Range(designer'.uiViews)
         IN  /\ onCard =>
                  /\ designer'.commands =
                        Append(designer.commands,
                               [cmd |-> "AddUiView", cardIndex |-> designer.cardIndex,
                                model |-> m])
                  /\ m \notin Range(Designer_Undo(designer').uiViews)
             /\ ~lastOp'.dragged =>
                  /\ ~onCard
                  /\ designer'.commands = designer.commands]_vars


\* C39: a thread that waits in to_main_sync after the main thread has run
\* to_main_helper for its call, the callable having returned or raised, is
\* eventually returned to
C39_CallReturns ==
    \A k \in WorkerIds :
        (workers[k].pc = "waiting" /\ (workers[k].own # <<>> \/ workers[k].raised))
            ~> (workers[k].pc = "running")

====
